---- MODULE Spec2Model ----
(***************************************************************************)
(* Document-to-vector ingestion and retrieval core of                      *)
(* backend/add_to_vector_db.py (and the copies in backend/ai/openai_client *)
(* .py): the text sanitizer, the streaming word chunker, the retried        *)
(* embedding call, the retried batch insert, the ingestion run that ties   *)
(* them together and the similarity query.                                 *)
(*                                                                         *)
(* Each operation has its own specification over the shared variables:     *)
(*   SpecChunk  chunk_generator_from_file                                  *)
(*   SpecEmbed  generate_embedding_batch                                   *)
(*   SpecStore  store_metadata_and_embedding_batch                         *)
(*   SpecQuery  query_similar_embeddings                                   *)
(*   SpecClean  clean_text_for_db, applied once and twice                  *)
(*   SpecIngest ingest_file with ensure_table_exists and its callees       *)
(*   SpecChunkFair  SpecChunk with the generator run to its end            *)
(*   SpecFlush  one flush_embedding_and_insert of ingest_file              *)
(*   SpecTwoIngests  two ingest_file runs sharing the table                *)
(***************************************************************************)
EXTENDS Integers, Sequences, FiniteSets, TLC

\* ------------------------------------------------------------------ bounds
\* longest enumerated document, in words
MaxWords == 6
\* largest enumerated chunk_size
MaxChunkSize == 3
\* longest enumerated list of texts handed to one embedding call
MaxTexts == 2
\* embedding vectors are the points 0..MaxEmb of a line
MaxEmb == 2
\* longest enumerated small batch handed to one insert call
MaxRows == 2
\* most rows the table holds before an insert call
MaxOldRows == 1
\* most rows the table holds when it is queried
MaxStoreRows == 3
\* largest enumerated top_k below the default
MaxTopK == 2
\* longest enumerated free part of a string handed to the sanitizer
MaxHead == 3
\* largest enumerated small max_len of the sanitizer
MaxCleanLen == 17
\* longest document handed to ingest_file, in words
MaxIngestWords == 2
\* largest embedding_batch_size and db_insert_batch_size handed to ingest_file
MaxBatchSize == 2
\* most failures of the provider and the store during one ingest_file run
MaxFaults == 5
\* most failures of the provider and the store while two runs are interleaved
MaxConcurrentFaults == 1
\* how many evenly spread values random.random() is drawn from
RandomSteps == 2

\* --------------------------------------------------------------- variables
VARIABLES
    \* chunk_generator_from_file
    doc,            \* the document's word stream, in document order
    chunk_size,
    chunk_overlap,
    carry,          \* words read and not yet dropped
    nread,          \* how many words of doc have been appended to carry
    chunks,         \* the chunks yielded so far, in order
    chunk_spans,    \* for every yielded chunk, the positions in doc of its first
                    \* and of its last word
    gen_pc,         \* "words" | "drain" | "done"
    \* generate_embedding_batch
    texts,          \* the input list
    emb_attempt,    \* attempt
    emb_calls,      \* client.embeddings.create calls made so far
    emb_raised,     \* how many of those calls raised
    emb_wrong,      \* how many answered with a wrong number of vectors
    emb_backoff,    \* the delay of the time.sleep in progress, in ms; 0 when none
    emb_sleeps,     \* how many times the call slept
    embeddings,     \* the returned list
    emb_pc,         \* "idle" | "call" | "sleep" | "returned" | "raised"
    \* the store
    db_table,       \* committed rows of the documents table, in insertion order
    db_seq,         \* last value the id sequence handed out
    db_txn,         \* rows inserted by the open transaction, not committed
    open_conns,     \* connections opened and not closed
    \* store_metadata_and_embedding_batch
    rows,           \* the batch
    db_attempt,     \* attempt
    conn,           \* "None" | "open" | "closed"
    cur_result,     \* what cur.fetchall() has to give
    stmt_count,     \* INSERT statements this attempt has executed
    ids,
    inserted_ids,
    seq_at_call,    \* db_seq when the call started
    st_backoff,     \* the delay of the time.sleep in progress, in ms; 0 when none
    st_sleeps,      \* how many times the call slept
    st_pc,          \* "idle" | "entry" | "begin" | "connect" | "execute" | "fetch"
                    \* | "commit" | "cur_close" | "conn_close" | "sleep"
                    \* | "returned" | "raised"
    \* query_similar_embeddings
    q_module,       \* "add_to_vector_db" | "openai_client": which copy runs
    top_k,
    query_embedding,
    q_cursor,       \* the rows the executed SELECT produced
    q_rows,         \* rows = cur.fetchall()
    results,
    q_failure,      \* the step that raised, "none" if none did
    q_pc,           \* "idle" | "rewrite" | "embed" | "embedding" | "connect"
                    \* | "register" | "execute" | "fetch" | "close" | "build"
                    \* | "returned" | "raised"
    \* clean_text_for_db
    cl_s,           \* the argument s, a sequence of characters
    cl_max_len,     \* the argument max_len
    cl_once,        \* clean_text_for_db(s, max_len)
    cl_twice,       \* clean_text_for_db(clean_text_for_db(s, max_len), max_len)
    cl_pc,          \* "idle" | "input" | "once" | "twice"
    \* ingest_file
    ing_ext,                \* the extension of file_path, lower case
    ing_file_exists,        \* os.path.isfile(file_path)
    embedding_batch_size,
    db_insert_batch_size,
    pending_chunk_labels,
    batch_rows,             \* rows of flush_embedding_and_insert
    sub_start,              \* i of the loop over the sub-batches of rows
    all_inserted_ids,
    total_chunks_processed,
    ing_final,              \* TRUE in the flush that follows the loop
    bucket_calls,           \* calls made to the object store, counted up to 1
    fs_accessed,            \* TRUE once the file system was asked for the file
    provider_calls,         \* calls made to the embedding provider in this run
    store_calls,            \* calls of store_metadata_and_embedding_batch
    faults,                 \* failures of the provider and the store so far
    embed_log,              \* the argument of every generate_embedding_batch call
    provider_log,           \* the texts of every request made to the provider
    insert_log,             \* the rows argument of every insert call, of both runs
    table_exists,           \* the embeddings table exists
    et_pc,                  \* ensure_table_exists: "idle" | "connect" | "extension"
                            \* | "create" | "commit" | "close" | "returned"
    et_ext_failed,          \* CREATE EXTENSION raised
    ing_pc,         \* "idle" | "bucket" | "table" | "ext_check" | "next" | "flush"
                    \* | "embedding" | "insert" | "inserting" | "returned"
                    \* | "raised"
    \* a second ingest_file run, on another document, that meets no failure
    other_doc,
    other_total_chunks_processed,
    other_pending_chunk_labels,
    other_sub_start,
    other_all_inserted_ids,
    other_final,
    other_pc        \* "idle" | "next" | "embedding" | "insert" | "returned"

chunkVars == <<doc, chunk_size, chunk_overlap, carry, nread, chunks, chunk_spans, gen_pc>>

embVars == <<texts, emb_attempt, emb_calls, emb_raised, emb_wrong, emb_backoff, emb_sleeps,
             embeddings, emb_pc>>

dbVars == <<db_table, db_seq, db_txn, open_conns>>

storeVars == <<rows, db_attempt, conn, cur_result, stmt_count, ids, inserted_ids,
               seq_at_call, st_backoff, st_sleeps, st_pc>>

storeVars_but_pc == <<rows, db_attempt, conn, cur_result, stmt_count, ids,
                      inserted_ids, seq_at_call, st_backoff, st_sleeps>>

queryVars == <<q_module, top_k, query_embedding, q_cursor, q_rows, results,
               q_failure, q_pc>>

cleanVars == <<cl_s, cl_max_len, cl_once, cl_twice, cl_pc>>

ingArgs == <<ing_ext, ing_file_exists, embedding_batch_size, db_insert_batch_size>>

ingLoop == <<pending_chunk_labels, batch_rows, sub_start, all_inserted_ids,
             total_chunks_processed, ing_final>>

ingCalls == <<embed_log, provider_log, insert_log>>

ingLog == <<bucket_calls, fs_accessed, provider_calls, store_calls, faults, ingCalls>>

etVars == <<table_exists, et_pc, et_ext_failed>>

otherVars == <<other_doc, other_total_chunks_processed, other_pending_chunk_labels,
               other_sub_start, other_all_inserted_ids, other_final, other_pc>>

ingVars == <<ingArgs, ingLoop, ingLog, etVars, ing_pc, otherVars>>

vars == <<chunkVars, embVars, dbVars, storeVars, queryVars, cleanVars, ingVars>>

\* ----------------------------------------------------------------- helpers
Min(a, b) == IF a <= b THEN a ELSE b

Max(a, b) == IF a >= b THEN a ELSE b

\* all sequences over S of length 0..n
SeqsUpTo(S, n) == UNION {[1..k -> S] : k \in 0..n}

\* Python's s[i:] for 0 <= i (0-based start), on a sequence
SliceFrom(s, i) == SubSeq(s, Min(i, Len(s)) + 1, Len(s))

\* Python's s[:j] for 0 <= j
SliceTo(s, j) == SubSeq(s, 1, Min(j, Len(s)))

\* ------------------------------------------------- chunk strings and words
\* The words a document is made of; a word holds no whitespace and is not
\* empty (_words_from_text_stream splits on \s+ and drops empty pieces).
Words == {"a", "b"}

\* " ".join(ws): the words with one space between neighbours
JoinWords(ws) ==
    IF ws = <<>> THEN <<>>
    ELSE [i \in 1..(2 * Len(ws) - 1) |->
            IF i % 2 = 1 THEN ws[(i + 1) \div 2] ELSE " "]

\* the characters str.strip() removes, among those the model has
PyWhitespace == {" ", "TAB", "LF", "CR", "FF", "VT"}

RECURSIVE StripLeft(_)
StripLeft(s) ==
    IF s # <<>> /\ Head(s) \in PyWhitespace THEN StripLeft(Tail(s)) ELSE s

RECURSIVE StripRight(_)
StripRight(s) ==
    IF s # <<>> /\ s[Len(s)] \in PyWhitespace THEN StripRight(SubSeq(s, 1, Len(s) - 1)) ELSE s

\* str.strip()
Strip(s) == StripRight(StripLeft(s))

\* re.split(r"\s+", text.strip()) without the empty pieces, on a string whose
\* words are single tokens
WordsFromText(s) == SelectSeq(s, LAMBDA t : t # " ")

\* carry[:chunk_size], off by one at the front
ChunkWordsSkipFirst(c, size) == SubSeq(c, 2, Min(size, Len(c)))

\* carry[:chunk_size - 1], one word short
ChunkWordsShort(c, size) == SliceTo(c, size - 1)

\* chunk_words = carry[:chunk_size]
ChunkWords(c, size) == SliceTo(c, size)

\* carry[chunk_size:], the overlap forgotten
KeepOverlapNone(c, size, overlap) == SliceFrom(c, size)

\* carry kept whole
KeepOverlapWhole(c, size, overlap) == c

\* carry = carry[chunk_size - chunk_overlap:]
KeepOverlap(c, size, overlap) == SliceFrom(c, size - overlap)

\* the flush without the words the previous chunk already carried
FlushWordsWithoutOverlap(c, overlap) == SliceFrom(c, overlap)

\* the flushed remainder is the whole carry
FlushWords(c, overlap) == c

\* the string one yield hands out
ChunkText(ws) == Strip(JoinWords(ws))

\* ------------------------------------------------------- the text sanitizer
\* clean_text_for_db(s, max_len=10000). A string is a sequence of characters;
\* the characters are " ", "e" and the named ones: "NUL" (U+0000), "TAB",
\* "LF", "CR", "FF" (U+000C), "ZWSP" (U+200B, category Cf), "ACUTE" (U+0301,
\* the combining acute accent) and "E_ACUTE" (U+00E9, the composition of
\* "e" followed by "ACUTE"). The None argument, returned as it is, is left out.
DefaultMaxLen == 10000

\* the characters whose unicodedata.category starts with "C"
CategoryC == {"NUL", "TAB", "LF", "CR", "FF", "VT", "ZWSP"}

\* if ch in ("\t", "\n", "\r"): keep
AllowedControls == {"TAB", "LF", "CR"}

\* the class [ \t\f\v] of the collapsing pattern
HorizontalWs == {" ", "TAB", "FF", "VT"}

\* " ... [truncated]"
TruncationMarker ==
    <<" ", ".", ".", ".", " ", "[", "t", "r", "u", "n", "c", "a", "t", "e", "d", "]">>

\* max_len - 14: the characters kept in front of the marker
TruncateKeepOffset == 14

\* s.replace("\x00", "")
RemoveNul(s) == SelectSeq(s, LAMBDA ch : ch # "NUL")

\* unicodedata.normalize("NFC", s): a base character directly followed by its
\* combining mark is composed; a character between the two blocks it
RECURSIVE NFC(_)
NFC(s) ==
    IF Len(s) < 2 THEN s
    ELSE IF s[1] = "e" /\ s[2] = "ACUTE"
         THEN <<"E_ACUTE">> \o NFC(SubSeq(s, 3, Len(s)))
         ELSE <<s[1]>> \o NFC(Tail(s))

\* the filter that drops no character at all
StripControlsNone(s) == s

\* the loop over s: tab, newline and carriage return are kept, every other
\* character of a category C* is skipped
StripControls(s) ==
    SelectSeq(s, LAMBDA ch : ch \in AllowedControls \/ ch \notin CategoryC)

\* s without its leading characters that are in S
RECURSIVE DropWhile(_, _)
DropWhile(s, S) ==
    IF s # <<>> /\ Head(s) \in S THEN DropWhile(Tail(s), S) ELSE s

\* re.sub(r"[ \t\f\v]{2,}", " ", out)
RECURSIVE CollapseWs(_)
CollapseWs(s) ==
    IF s = <<>> THEN <<>>
    ELSE IF Len(s) >= 2 /\ s[1] \in HorizontalWs /\ s[2] \in HorizontalWs
         THEN <<" ">> \o CollapseWs(DropWhile(s, HorizontalWs))
         ELSE <<Head(s)>> \o CollapseWs(Tail(s))

\* the value of out after out.strip(), before the length test
SanitizedForm(s) == Strip(CollapseWs(StripControls(NFC(RemoveNul(s)))))

\* if max_len and len(out) > max_len: out = out[: max_len - 14] + marker
Truncate(out, max_len) ==
    IF max_len # 0 /\ Len(out) > max_len
    THEN SliceTo(out, max_len - TruncateKeepOffset) \o TruncationMarker
    ELSE out

clean_text_for_db(s, max_len) == Truncate(SanitizedForm(s), max_len)

\* ------------------------------------------------------------- the chunker
\* chunk_size and chunk_overlap defaults
DefaultChunkSize == 500

DefaultChunkOverlap == 50

\* the 1200-word document of the end-to-end scenario
ScenarioDoc == [i \in 1..1200 |-> IF i % 2 = 1 THEN "a" ELSE "b"]

ChunkIdle ==
    /\ doc = <<>>
    /\ chunk_size = DefaultChunkSize
    /\ chunk_overlap = DefaultChunkOverlap
    /\ carry = <<>>
    /\ nread = 0
    /\ chunks = <<>>
    /\ chunk_spans = <<>>
    /\ gen_pc = "idle"

EmbIdle ==
    /\ texts = <<>>
    /\ emb_attempt = 0
    /\ emb_calls = 0
    /\ emb_raised = 0
    /\ emb_wrong = 0
    /\ emb_backoff = 0
    /\ emb_sleeps = 0
    /\ embeddings = <<>>
    /\ emb_pc = "idle"

DbEmpty ==
    /\ db_table = <<>>
    /\ db_seq = 0
    /\ db_txn = <<>>
    /\ open_conns = 0

StoreIdle ==
    /\ rows = <<>>
    /\ db_attempt = 0
    /\ conn = "None"
    /\ cur_result = <<>>
    /\ stmt_count = 0
    /\ ids = <<>>
    /\ inserted_ids = <<>>
    /\ seq_at_call = 0
    /\ st_backoff = 0
    /\ st_sleeps = 0
    /\ st_pc = "idle"

CleanIdle ==
    /\ cl_s = <<>>
    /\ cl_max_len = 0
    /\ cl_once = <<>>
    /\ cl_twice = <<>>
    /\ cl_pc = "idle"

OtherIdle ==
    /\ other_doc = <<>>
    /\ other_total_chunks_processed = 0
    /\ other_pending_chunk_labels = <<>>
    /\ other_sub_start = 0
    /\ other_all_inserted_ids = <<>>
    /\ other_final = FALSE
    /\ other_pc = "idle"

IngestIdle ==
    /\ ing_ext = "pdf"
    /\ ing_file_exists = TRUE
    /\ embedding_batch_size = 1
    /\ db_insert_batch_size = 1
    /\ pending_chunk_labels = <<>>
    /\ batch_rows = <<>>
    /\ sub_start = 0
    /\ all_inserted_ids = <<>>
    /\ total_chunks_processed = 0
    /\ ing_final = FALSE
    /\ bucket_calls = 0
    /\ fs_accessed = FALSE
    /\ provider_calls = 0
    /\ store_calls = 0
    /\ faults = 0
    /\ embed_log = <<>>
    /\ provider_log = <<>>
    /\ insert_log = <<>>
    /\ table_exists = TRUE
    /\ et_pc = "idle"
    /\ et_ext_failed = FALSE
    /\ ing_pc = "idle"
    /\ OtherIdle

QueryIdle ==
    /\ q_module = "add_to_vector_db"
    /\ top_k = 0
    /\ query_embedding = 0
    /\ q_cursor = <<>>
    /\ q_rows = <<>>
    /\ results = <<>>
    /\ q_failure = "none"
    /\ q_pc = "idle"

InitChunk ==
    /\ IngestIdle
    /\ CleanIdle
    /\ EmbIdle
    /\ DbEmpty
    /\ StoreIdle
    /\ QueryIdle
    /\ \/ /\ doc \in SeqsUpTo(Words, MaxWords)
          /\ chunk_size \in 1..MaxChunkSize
          /\ chunk_overlap \in 0..(chunk_size - 1)
       \/ /\ doc = ScenarioDoc
          /\ chunk_size = DefaultChunkSize
          /\ chunk_overlap = DefaultChunkOverlap
    /\ carry = <<>>
    /\ nread = 0
    /\ chunks = <<>>
    /\ chunk_spans = <<>>
    /\ gen_pc = "words"

\* carry holds the last len(carry) words read: the positions in doc of the
\* first and the last of its leading words ws
SpanOf(ws) == <<nread - Len(carry) + 1, nread - Len(carry) + Len(ws)>>

\* a test that lets carry grow one word past chunk_size
CarryFullLate(c, size) == Len(c) > size

\* len(carry) >= chunk_size, the test of the word loops and of the drain loop
CarryFull(c, size) == Len(c) >= size

\* carry.append(w); if len(carry) >= chunk_size: drain
AppendWord ==
    /\ gen_pc = "words"
    /\ nread < Len(doc)
    /\ carry' = Append(carry, doc[nread + 1])
    /\ nread' = nread + 1
    /\ gen_pc' = IF CarryFull(carry', chunk_size) THEN "drain" ELSE "words"
    /\ UNCHANGED <<doc, chunk_size, chunk_overlap, chunks, chunk_spans>>
    /\ UNCHANGED <<ingVars, cleanVars, embVars, dbVars, storeVars, queryVars>>

\* one pass of the while loop of _maybe_yield_from_carry
YieldFromCarry ==
    /\ gen_pc = "drain"
    /\ CarryFull(carry, chunk_size)
    /\ chunks' = Append(chunks, ChunkText(ChunkWords(carry, chunk_size)))
    /\ chunk_spans' = Append(chunk_spans, SpanOf(ChunkWords(carry, chunk_size)))
    /\ carry' = KeepOverlap(carry, chunk_size, chunk_overlap)
    /\ gen_pc' = IF CarryFull(carry', chunk_size) THEN "drain" ELSE "words"
    /\ UNCHANGED <<doc, chunk_size, chunk_overlap, nread>>
    /\ UNCHANGED <<ingVars, cleanVars, embVars, dbVars, storeVars, queryVars>>

\* flush remaining: if carry: yield " ".join(carry).strip()
FlushRemaining ==
    /\ gen_pc = "words"
    /\ nread = Len(doc)
    /\ chunks' = IF carry # <<>>
                 THEN Append(chunks, ChunkText(FlushWords(carry, chunk_overlap)))
                 ELSE chunks
    /\ chunk_spans' = IF carry # <<>>
                      THEN Append(chunk_spans, SpanOf(FlushWords(carry, chunk_overlap)))
                      ELSE chunk_spans
    /\ gen_pc' = "done"
    /\ UNCHANGED <<doc, chunk_size, chunk_overlap, carry, nread>>
    /\ UNCHANGED <<ingVars, cleanVars, embVars, dbVars, storeVars, queryVars>>

NextChunk ==
    \/ AppendWord
    \/ YieldFromCarry
    \/ FlushRemaining

SpecChunk == InitChunk /\ [][NextChunk]_vars

\* the generator is driven to its end: the consumer asks for the next chunk
\* until the generator is exhausted (for raw_chunk in chunks_iter)
SpecChunkFair == SpecChunk /\ WF_vars(NextChunk)

\* ---------------------------------------------------- claims on the chunker
CeilDiv(a, b) == (a + b - 1) \div b

\* word count of every yielded chunk, in order
ChunkSizes == [i \in 1..Len(chunks) |-> Len(WordsFromText(chunks[i]))]

\* the first `keep` words of every chunk but the last, then the whole last one
RECURSIVE Rebuild(_, _)
Rebuild(cs, keep) ==
    IF cs = <<>> THEN <<>>
    ELSE IF Len(cs) = 1 THEN WordsFromText(cs[1])
    ELSE SliceTo(WordsFromText(Head(cs)), keep) \o Rebuild(Tail(cs), keep)

\* the flush repeats the overlap words once more: the document is not longer
\* than the overlap, or the last full chunk ended exactly at the last word
FlushOnlyRepeats(n, c, o) ==
    \/ 0 < n /\ n <= o
    \/ o > 0 /\ n >= c /\ (n - o) % (c - o) = 0

\* C1 (as amended): a finished run over n words has yielded
\* ceil(max(n - o, 0) / (c - o)) chunks, and one more when 0 < n <= o or when
\* o > 0, n >= c and c - o divides n - o.
C1_ChunkCount ==
    gen_pc = "done" =>
        Len(chunks) =
            CeilDiv(Max(Len(doc) - chunk_overlap, 0), chunk_size - chunk_overlap)
            + (IF FlushOnlyRepeats(Len(doc), chunk_size, chunk_overlap) THEN 1 ELSE 0)

\* C1 as stated: the count is ceil(max(n - o, 0) / (c - o)) in every case.
C1_ChunkCountOriginal ==
    gen_pc = "done" =>
        Len(chunks) =
            CeilDiv(Max(Len(doc) - chunk_overlap, 0), chunk_size - chunk_overlap)

C1_Witness ==
    /\ gen_pc = "done"
    /\ chunk_overlap > 0
    /\ Len(doc) >= chunk_size
    /\ (Len(doc) - chunk_overlap) % (chunk_size - chunk_overlap) = 0
    /\ Len(chunks) >= 3

RECURSIVE SumSeq(_)
SumSeq(ns) == IF ns = <<>> THEN 0 ELSE Head(ns) + SumSeq(Tail(ns))

\* C2: the first c - o words of every chunk but the last, followed by the
\* whole last chunk, are exactly the document's words in order, and the
\* chunks together hold only o words more per chunk boundary.
C2_Reconstruct ==
    gen_pc = "done" =>
        /\ Rebuild(chunks, chunk_size - chunk_overlap) = doc
        /\ chunks # <<>> =>
              SumSeq(ChunkSizes) = Len(doc) + chunk_overlap * (Len(chunks) - 1)

C2_Witness ==
    /\ gen_pc = "done"
    /\ chunk_overlap > 0
    /\ Len(chunks) >= 3
    /\ \E i, j \in 1..Len(doc) : doc[i] # doc[j]

\* C3 (as amended): 1200 words at chunk_size 500 and overlap 50 give three
\* chunks of 500, 500 and 300 words (50 repeated words, then 250 new ones).
C3_ScenarioSizes ==
    (gen_pc = "done" /\ doc = ScenarioDoc
        /\ chunk_size = DefaultChunkSize /\ chunk_overlap = DefaultChunkOverlap)
    => ChunkSizes = <<500, 500, 300>>

\* C3 as stated: the three chunks hold 500, 500 and 250 words.
C3_ScenarioSizesOriginal ==
    (gen_pc = "done" /\ doc = ScenarioDoc
        /\ chunk_size = DefaultChunkSize /\ chunk_overlap = DefaultChunkOverlap)
    => ChunkSizes = <<500, 500, 250>>

C3_Witness ==
    /\ gen_pc = "done"
    /\ doc = ScenarioDoc
    /\ Len(chunks) = 3
    /\ Len(WordsFromText(chunks[3])) < chunk_size

\* ------------------------------------------------- generate_embedding_batch
EMBEDDING_MAX_RETRIES == 5

\* EMBEDDING_RETRY_BASE = 1.0 seconds, in milliseconds
EMBEDDING_RETRY_BASE == 1000

\* random.random() * 0.5: the jitter is below 0.5 seconds, in milliseconds
EmbJitterSpan == 500

\* random.random(), in thousandths: RandomSteps values spread over [0, 1),
\* and the largest value below 1
RandomDraws == {(k * 1000) \div RandomSteps : k \in 0..(RandomSteps - 1)} \cup {999}

\* r thousandths of span
Jitter(r, span) == (r * span) \div 1000

\* a delay that does not grow with the attempt
EmbBackoffFlat(attempt, r) == EMBEDDING_RETRY_BASE + Jitter(r, EmbJitterSpan)

\* backoff = EMBEDDING_RETRY_BASE * (2 ** (attempt - 1)) + random.random() * 0.5
EmbBackoff(attempt, r) ==
    EMBEDDING_RETRY_BASE * 2 ^ (attempt - 1) + Jitter(r, EmbJitterSpan)

EmbVals == 0..MaxEmb

\* the length check left out
CountMatchesAlways(got, wanted) == TRUE

\* if len(embeddings) != len(texts): raise  (the list is returned when it holds)
CountMatches(got, wanted) == got = wanted

\* every failed attempt raises to the caller
RetriesExhaustedAtOnce(attempt) == TRUE

\* if attempt >= EMBEDDING_MAX_RETRIES: raise
RetriesExhausted(attempt) == attempt >= EMBEDDING_MAX_RETRIES

\* how many vectors the provider may answer a request of n texts with, when
\* it answers at all
ProviderCounts(n) == 0..(n + 1)

\* the except branch of generate_embedding_batch
EmbHandleException ==
    IF RetriesExhausted(emb_attempt')
    THEN /\ emb_pc' = "raised"
         /\ UNCHANGED <<emb_backoff, emb_sleeps>>
    ELSE /\ emb_pc' = "sleep"
         /\ \E r \in RandomDraws : emb_backoff' = EmbBackoff(emb_attempt', r)
         /\ emb_sleeps' = emb_sleeps + 1

\* attempt += 1; resp = client.embeddings.create(...): the call raises
EmbCallRaises ==
    /\ emb_pc = "call"
    /\ emb_attempt' = emb_attempt + 1
    /\ emb_calls' = emb_calls + 1
    /\ emb_raised' = emb_raised + 1
    /\ EmbHandleException
    /\ UNCHANGED <<texts, emb_wrong, embeddings>>

\* attempt += 1; the call answers with m vectors
EmbCallAnswers ==
    /\ emb_pc = "call"
    /\ \E m \in ProviderCounts(Len(texts)) : \E vs \in [1..m -> EmbVals] :
          /\ emb_attempt' = emb_attempt + 1
          /\ emb_calls' = emb_calls + 1
          /\ emb_wrong' = IF m = Len(texts) THEN emb_wrong ELSE emb_wrong + 1
          /\ IF CountMatches(m, Len(texts))
             THEN /\ embeddings' = vs
                  /\ emb_pc' = "returned"
                  /\ UNCHANGED <<emb_backoff, emb_sleeps>>
             ELSE /\ embeddings' = embeddings
                  /\ EmbHandleException
    /\ UNCHANGED <<texts, emb_raised>>

\* time.sleep(backoff) is over
EmbSleepDone ==
    /\ emb_pc = "sleep"
    /\ emb_pc' = "call"
    /\ emb_backoff' = 0
    /\ UNCHANGED <<texts, emb_attempt, emb_calls, emb_raised, emb_wrong, emb_sleeps, embeddings>>

InitEmbed ==
    /\ IngestIdle
    /\ CleanIdle
    /\ ChunkIdle
    /\ DbEmpty
    /\ StoreIdle
    /\ QueryIdle
    /\ texts \in {[i \in 1..n |-> i] : n \in 0..MaxTexts}
    /\ emb_attempt = 0
    /\ emb_calls = 0
    /\ emb_raised = 0
    /\ emb_wrong = 0
    /\ emb_backoff = 0
    /\ emb_sleeps = 0
    /\ embeddings = <<>>
    /\ emb_pc = "call"

NextEmbed ==
    \/ EmbCallRaises /\ UNCHANGED <<ingVars, cleanVars, chunkVars, dbVars, storeVars, queryVars>>
    \/ EmbCallAnswers /\ UNCHANGED <<ingVars, cleanVars, chunkVars, dbVars, storeVars, queryVars>>
    \/ EmbSleepDone /\ UNCHANGED <<ingVars, cleanVars, chunkVars, dbVars, storeVars, queryVars>>

SpecEmbed == InitEmbed /\ [][NextEmbed]_vars

\* C4: generate_embedding_batch ends in one of two ways: it returns a list as
\* long as texts, or it raises after exactly EMBEDDING_MAX_RETRIES provider
\* calls; it never makes more calls than that.
C4_ReturnOrRaise ==
    /\ emb_pc = "returned" => Len(embeddings) = Len(texts)
    /\ emb_pc = "raised" => emb_calls = EMBEDDING_MAX_RETRIES
    /\ emb_calls <= EMBEDDING_MAX_RETRIES

\* raised after errors and wrong-length answers both occurred
C4_Witness ==
    /\ emb_pc = "raised"
    /\ emb_raised > 0
    /\ emb_wrong > 0

\* C22 (as amended): an answer with a number of vectors other than
\* len(texts) is handled like any failed attempt: the function raises when
\* that was attempt EMBEDDING_MAX_RETRIES, and otherwise sleeps before it
\* calls the provider again.
C22_MismatchRetried ==
    [][emb_wrong' > emb_wrong =>
          emb_pc' = (IF emb_attempt' >= EMBEDDING_MAX_RETRIES THEN "raised" ELSE "sleep")]_vars

\* C22 as stated: after an answer of the wrong length the function has
\* failed, and no further provider call was made.
C22_MismatchFatalOriginal ==
    emb_wrong >= 1 => (emb_pc = "raised" /\ emb_wrong + emb_raised = emb_calls)

\* the call returned although an earlier answer had the wrong length
C22_Witness ==
    /\ emb_pc = "returned"
    /\ emb_wrong >= 1
    /\ emb_calls >= 2

\* --------------------------------------- store_metadata_and_embedding_batch
DB_INSERT_BATCH_SIZE == 64

DB_MAX_RETRIES == 4

\* DB_RETRY_BASE = 0.5 seconds, in milliseconds
DB_RETRY_BASE == 500

\* random.random() * 0.3: the jitter is below 0.3 seconds, in milliseconds
DbJitterSpan == 300

\* backoff = DB_RETRY_BASE * (2 ** (attempt - 1)) + random.random() * 0.3
DbBackoff(attempt, r) == DB_RETRY_BASE * 2 ^ (attempt - 1) + Jitter(r, DbJitterSpan)

\* a chunk text that names the chunk's number
TextOf(i) == <<"c", ToString(i)>>

\* the row tuples (filename, url, chunk_text, Vector(embedding)); url is
\* always the string "None" and is left out
BatchOf(n, fn) == [i \in 1..n |-> [fn |-> fn, chunk |-> TextOf(i), emb |-> 0]]

\* id SERIAL PRIMARY KEY: the i-th inserted row takes the sequence's next
\* value; values drawn by a transaction that is rolled back are not reused
SerialIds(n, seq) == [i \in 1..n |-> seq + i]

\* extras.execute_values(..., page_size=DB_INSERT_BATCH_SIZE) sends one INSERT
\* statement per page of page_size rows
PageCount(n, page_size) == (n + page_size - 1) \div page_size

\* index of the first row of the last page
LastPageStart(n, page_size) == ((n - 1) \div page_size) * page_size + 1

\* cur.fetchall() after execute_values without fetch=True: the cursor holds
\* the RETURNING rows of the last statement executed
CursorRows(assigned, page_size) ==
    IF assigned = <<>> THEN <<>>
    ELSE SubSeq(assigned, LastPageStart(Len(assigned), page_size), Len(assigned))

\* the sanitized rows: chunk = clean_text_for_db(chunk) (the file name, a
\* clean word here, is passed through the same function)
SanitizedRows(batch) ==
    [i \in 1..Len(batch) |->
        [fn |-> batch[i].fn,
         chunk |-> clean_text_for_db(batch[i].chunk, DefaultMaxLen),
         emb |-> batch[i].emb]]

\* the table rows one INSERT ... VALUES adds, in VALUES order
InsertedRecords(batch, assigned) ==
    [i \in 1..Len(batch) |->
        [id |-> assigned[i], fn |-> SanitizedRows(batch)[i].fn,
         chunk |-> SanitizedRows(batch)[i].chunk,
         emb |-> SanitizedRows(batch)[i].emb]]

\* a rollback that empties the table
AfterRollbackWipes(table, txn) == <<>>

\* conn.rollback(), or the connection dropped: the rows of the open
\* transaction are discarded, the committed rows of the table stay
AfterRollback(table, txn) == table

\* if attempt >= DB_MAX_RETRIES: raise
DbRetriesExhausted(attempt) == attempt >= DB_MAX_RETRIES

\* the points of an attempt at which the driver or the store may raise
StFailPoints == {"connect", "execute", "fetch", "commit", "cur_close", "conn_close"}

\* if not rows: return []
StReturnEmpty ==
    /\ st_pc = "entry"
    /\ rows = <<>>
    /\ inserted_ids' = <<>>
    /\ st_pc' = "returned"
    /\ UNCHANGED <<rows, db_attempt, conn, cur_result, stmt_count, ids, seq_at_call, st_backoff, st_sleeps>>
    /\ UNCHANGED dbVars

\* the rows are sanitized; attempt = 0; inserted_ids = []
StEnter ==
    /\ st_pc = "entry"
    /\ rows # <<>>
    /\ db_attempt' = 0
    /\ inserted_ids' = <<>>
    /\ st_pc' = "begin"
    /\ UNCHANGED <<rows, conn, cur_result, stmt_count, ids, seq_at_call, st_backoff, st_sleeps>>
    /\ UNCHANGED dbVars

\* attempt += 1; conn = None
StBegin ==
    /\ st_pc = "begin"
    /\ db_attempt' = db_attempt + 1
    /\ conn' = "None"
    /\ stmt_count' = 0
    /\ st_pc' = "connect"
    /\ UNCHANGED <<rows, cur_result, ids, inserted_ids, seq_at_call, st_backoff, st_sleeps>>
    /\ UNCHANGED dbVars

\* conn = psycopg2.connect(db_url)
StConnect ==
    /\ st_pc = "connect"
    /\ conn' = "open"
    /\ open_conns' = open_conns + 1
    /\ st_pc' = "execute"
    /\ UNCHANGED <<rows, db_attempt, cur_result, stmt_count, ids, inserted_ids, seq_at_call, st_backoff, st_sleeps>>
    /\ UNCHANGED <<db_table, db_seq, db_txn>>

\* register_vector(conn); cur = conn.cursor(); extras.execute_values(...)
StExecuteValues ==
    /\ st_pc = "execute"
    /\ LET assigned == SerialIds(Len(rows), db_seq)
       IN /\ db_txn' = InsertedRecords(rows, assigned)
          /\ db_seq' = db_seq + Len(rows)
          /\ cur_result' = CursorRows(assigned, DB_INSERT_BATCH_SIZE)
          /\ stmt_count' = PageCount(Len(rows), DB_INSERT_BATCH_SIZE)
    /\ st_pc' = "fetch"
    /\ UNCHANGED <<rows, db_attempt, conn, ids, inserted_ids, seq_at_call, st_backoff, st_sleeps>>
    /\ UNCHANGED <<db_table, open_conns>>

\* ids = [r[0] for r in cur.fetchall()]
StFetchAll ==
    /\ st_pc = "fetch"
    /\ ids' = cur_result
    /\ st_pc' = "commit"
    /\ UNCHANGED <<rows, db_attempt, conn, cur_result, stmt_count, inserted_ids, seq_at_call, st_backoff, st_sleeps>>
    /\ UNCHANGED dbVars

\* conn.commit()
StCommit ==
    /\ st_pc = "commit"
    /\ db_table' = db_table \o db_txn
    /\ db_txn' = <<>>
    /\ st_pc' = "cur_close"
    /\ UNCHANGED storeVars_but_pc
    /\ UNCHANGED <<db_seq, open_conns>>

\* cur.close()
StCurClose ==
    /\ st_pc = "cur_close"
    /\ st_pc' = "conn_close"
    /\ UNCHANGED storeVars_but_pc
    /\ UNCHANGED dbVars

\* conn.close(); inserted_ids.extend(ids); return inserted_ids
StConnClose ==
    /\ st_pc = "conn_close"
    /\ conn' = "closed"
    /\ open_conns' = open_conns - 1
    /\ inserted_ids' = inserted_ids \o ids
    /\ st_pc' = "returned"
    /\ UNCHANGED <<rows, db_attempt, cur_result, stmt_count, ids, seq_at_call, st_backoff, st_sleeps>>
    /\ UNCHANGED <<db_table, db_seq, db_txn>>

\* The step at st_pc raises. except: if conn: conn.rollback(); conn.close()
\* (an exception of the two is swallowed, and a failed rollback skips the
\* close); then raise when the attempts are used up, else sleep. Rows not
\* committed are gone either way: the store drops the transaction of a
\* connection that is closed or abandoned.
StAttemptFails ==
    /\ st_pc \in StFailPoints
    /\ db_txn' = <<>>
    /\ db_table' = AfterRollback(db_table, db_txn)
    /\ \E rollback_ok \in BOOLEAN :
          IF conn = "open" /\ rollback_ok
          THEN conn' = "closed" /\ open_conns' = open_conns - 1
          ELSE UNCHANGED <<conn, open_conns>>
    /\ IF DbRetriesExhausted(db_attempt)
       THEN /\ st_pc' = "raised"
            /\ UNCHANGED <<st_backoff, st_sleeps>>
       ELSE /\ st_pc' = "sleep"
            /\ \E r \in RandomDraws : st_backoff' = DbBackoff(db_attempt, r)
            /\ st_sleeps' = st_sleeps + 1
    /\ UNCHANGED <<rows, db_attempt, cur_result, stmt_count, ids, inserted_ids, seq_at_call>>
    /\ UNCHANGED db_seq

\* time.sleep(backoff) is over
StSleepDone ==
    /\ st_pc = "sleep"
    /\ st_pc' = "begin"
    /\ st_backoff' = 0
    /\ UNCHANGED <<rows, db_attempt, conn, cur_result, stmt_count, ids, inserted_ids,
                   seq_at_call, st_sleeps>>
    /\ UNCHANGED dbVars

\* rows an earlier call left in the table
OldRecords(p) == [i \in 1..p |-> [id |-> i, fn |-> "old", chunk |-> TextOf(i), emb |-> 0]]

InitStore ==
    /\ IngestIdle
    /\ CleanIdle
    /\ ChunkIdle
    /\ EmbIdle
    /\ QueryIdle
    /\ \E p \in 0..MaxOldRows :
          /\ db_table = OldRecords(p)
          /\ db_seq = p
          /\ seq_at_call = p
          /\ st_backoff = 0
          /\ st_sleeps = 0
    /\ db_txn = <<>>
    /\ open_conns = 0
    /\ rows \in {BatchOf(n, "doc") :
                    n \in (0..MaxRows) \cup {DB_INSERT_BATCH_SIZE, DB_INSERT_BATCH_SIZE + 1}}
    /\ db_attempt = 0
    /\ conn = "None"
    /\ cur_result = <<>>
    /\ stmt_count = 0
    /\ ids = <<>>
    /\ inserted_ids = <<>>
    /\ st_pc = "entry"

NextStore ==
    \/ StReturnEmpty /\ UNCHANGED <<ingVars, cleanVars, chunkVars, embVars, queryVars>>
    \/ StEnter /\ UNCHANGED <<ingVars, cleanVars, chunkVars, embVars, queryVars>>
    \/ StBegin /\ UNCHANGED <<ingVars, cleanVars, chunkVars, embVars, queryVars>>
    \/ StConnect /\ UNCHANGED <<ingVars, cleanVars, chunkVars, embVars, queryVars>>
    \/ StExecuteValues /\ UNCHANGED <<ingVars, cleanVars, chunkVars, embVars, queryVars>>
    \/ StFetchAll /\ UNCHANGED <<ingVars, cleanVars, chunkVars, embVars, queryVars>>
    \/ StCommit /\ UNCHANGED <<ingVars, cleanVars, chunkVars, embVars, queryVars>>
    \/ StCurClose /\ UNCHANGED <<ingVars, cleanVars, chunkVars, embVars, queryVars>>
    \/ StConnClose /\ UNCHANGED <<ingVars, cleanVars, chunkVars, embVars, queryVars>>
    \/ StAttemptFails /\ UNCHANGED <<ingVars, cleanVars, chunkVars, embVars, queryVars>>
    \/ StSleepDone /\ UNCHANGED <<ingVars, cleanVars, chunkVars, embVars, queryVars>>

SpecStore == InitStore /\ [][NextStore]_vars

\* ------------------------------------------------ claims on the batch insert
\* what the same call returns when no step of it ever fails
CleanRunIds ==
    CursorRows(SerialIds(Len(rows), seq_at_call), DB_INSERT_BATCH_SIZE)

\* how many committed rows of the table are the batch's i-th row
Copies(i) ==
    Cardinality({k \in 1..Len(db_table) :
        db_table[k].fn = rows[i].fn /\ db_table[k].chunk = rows[i].chunk})

\* C5: a call that returns after failed attempts returns the ids the same
\* call returns against a store that never fails.
C5_SameIdsAfterRetries ==
    st_pc = "returned" => inserted_ids = CleanRunIds

\* C6: between a failed attempt and the next one the table holds no row of
\* the batch; on return every row of the batch is in the table exactly once;
\* on the raise after DB_MAX_RETRIES attempts none of them is.
C6_FailedAttemptLeavesNothing ==
    /\ st_pc \in {"sleep", "begin", "raised"} =>
            \A i \in 1..Len(rows) : Copies(i) = 0
    /\ st_pc = "returned" => \A i \in 1..Len(rows) : Copies(i) = 1

\* C7: a call that returns gives one id per row, the i-th being the id of the
\* table row that holds the batch's i-th row, and one INSERT statement wrote
\* the batch.
C7_OneIdPerRowOneStatement ==
    (st_pc = "returned" /\ rows # <<>>) =>
        /\ Len(inserted_ids) = Len(rows)
        /\ \A i \in 1..Len(rows) :
              \E k \in 1..Len(db_table) :
                  /\ db_table[k].id = inserted_ids[i]
                  /\ db_table[k].fn = rows[i].fn
                  /\ db_table[k].chunk = rows[i].chunk
        /\ stmt_count = 1

\* ------------------------------------------------- query_similar_embeddings
\* top_k when the caller names none (openai_client.py, and the call at the end
\* of add_to_vector_db.py)
DefaultTopK == 6

\* embedding <-> %s: the Euclidean distance, here between points of a line
Distance(e, q) == IF e >= q THEN e - q ELSE q - e

\* SELECT id, filename, url, chunk_text, embedding, embedding <-> %s AS distance
SelectWithDistance(recs, q) ==
    [i \in 1..Len(recs) |->
        [id |-> recs[i].id, fn |-> recs[i].fn, chunk |-> recs[i].chunk,
         emb |-> recs[i].emb, distance |-> Distance(recs[i].emb, q)]]

Perms(n) == {f \in [1..n -> 1..n] : \A i, j \in 1..n : i # j => f[i] # f[j]}

\* the SELECT without its ORDER BY: the rows come in table order
OrderByNothing(rs) == {rs}

\* ORDER BY distance: every order of the rows in which the distance never
\* decreases (the store is free in how it orders equal distances)
OrderByDistance(rs) ==
    {[i \in 1..Len(rs) |-> rs[f[i]]] :
        f \in {g \in Perms(Len(rs)) :
                 \A i \in 1..(Len(rs) - 1) : rs[g[i]].distance <= rs[g[i + 1]].distance}}

\* LIMIT one row too many
LimitRowsPlusOne(rs, k) == SliceTo(rs, k + 1)

\* LIMIT %s with top_k >= 0
LimitRows(rs, k) == SliceTo(rs, k)

\* the except handler lets a provider failure through
QueryExceptPcProviderRaises(failure) ==
    IF failure = "provider" THEN "raised" ELSE "returned"

\* except Exception as e: print(...); return []
QueryExceptPc(failure) == "returned"

\* the steps of the try block that may raise, besides the embedding call
QFailPoints == {"rewrite", "connect", "execute", "fetch", "close"}

\* openai_client.py only: the chat completion that rewrites the query
\* (a reply that cannot be parsed falls back to the query text)
QRewrite ==
    /\ q_pc = "rewrite"
    /\ q_pc' = "embed"
    /\ UNCHANGED <<q_module, top_k, query_embedding, q_cursor, q_rows, results, q_failure>>
    /\ UNCHANGED <<embVars, dbVars>>

\* generate_embedding_from_text(text): generate_embedding_batch([text]) starts
QEmbedStart ==
    /\ q_pc = "embed"
    /\ texts' = <<1>>
    /\ emb_attempt' = 0
    /\ emb_calls' = 0
    /\ emb_raised' = 0
    /\ emb_wrong' = 0
    /\ emb_backoff' = 0
    /\ emb_sleeps' = 0
    /\ embeddings' = <<>>
    /\ emb_pc' = "call"
    /\ q_pc' = "embedding"
    /\ UNCHANGED <<q_module, top_k, query_embedding, q_cursor, q_rows, results, q_failure>>
    /\ UNCHANGED dbVars

\* the except branch of query_similar_embeddings
QHandleException(failure) ==
    /\ q_failure' = failure
    /\ results' = <<>>
    /\ q_pc' = QueryExceptPc(failure)

\* generate_embedding_batch([text])[0]: the first vector of the returned list
QEmbedReturned ==
    /\ q_pc = "embedding"
    /\ emb_pc = "returned"
    /\ IF Len(embeddings) >= 1
       THEN /\ query_embedding' = embeddings[1]
            /\ q_pc' = "connect"
            /\ UNCHANGED <<results, q_failure>>
       ELSE /\ QHandleException("provider")
            /\ UNCHANGED query_embedding
    \* the finished call's locals are gone
    /\ texts' = <<>>
    /\ emb_attempt' = 0
    /\ emb_calls' = 0
    /\ emb_raised' = 0
    /\ emb_wrong' = 0
    /\ emb_backoff' = 0
    /\ emb_sleeps' = 0
    /\ embeddings' = <<>>
    /\ emb_pc' = "idle"
    /\ UNCHANGED <<q_module, top_k, q_cursor, q_rows>>
    /\ UNCHANGED dbVars

\* generate_embedding_batch raised after its retries
QEmbedRaised ==
    /\ q_pc = "embedding"
    /\ emb_pc = "raised"
    /\ QHandleException("provider")
    /\ emb_pc' = "idle"
    /\ UNCHANGED <<texts, emb_attempt, emb_calls, emb_raised, emb_wrong, emb_backoff,
                   emb_sleeps, embeddings>>
    /\ UNCHANGED <<q_module, top_k, query_embedding, q_cursor, q_rows>>
    /\ UNCHANGED dbVars

\* conn = psycopg2.connect(DB_URL)
QConnect ==
    /\ q_pc = "connect"
    /\ open_conns' = open_conns + 1
    /\ q_pc' = "register"
    /\ UNCHANGED <<q_module, top_k, query_embedding, q_cursor, q_rows, results, q_failure>>
    /\ UNCHANGED <<db_table, db_seq, db_txn>>
    /\ UNCHANGED embVars

\* try: register_vector(conn) except: print a warning (works or not, go on)
QRegisterVector ==
    /\ q_pc = "register"
    /\ q_pc' = "execute"
    /\ UNCHANGED <<q_module, top_k, query_embedding, q_cursor, q_rows, results, q_failure>>
    /\ UNCHANGED <<embVars, dbVars>>

\* cur = conn.cursor(); cur.execute(SELECT ... ORDER BY distance LIMIT %s)
QExecute ==
    /\ q_pc = "execute"
    /\ \E ordered \in OrderByDistance(SelectWithDistance(db_table, query_embedding)) :
          q_cursor' = LimitRows(ordered, top_k)
    /\ q_pc' = "fetch"
    /\ UNCHANGED <<q_module, top_k, query_embedding, q_rows, results, q_failure>>
    /\ UNCHANGED <<embVars, dbVars>>

\* rows = cur.fetchall()
QFetchAll ==
    /\ q_pc = "fetch"
    /\ q_rows' = q_cursor
    /\ q_pc' = "close"
    /\ UNCHANGED <<q_module, top_k, query_embedding, q_cursor, results, q_failure>>
    /\ UNCHANGED <<embVars, dbVars>>

\* cur.close(); conn.close()
QClose ==
    /\ q_pc = "close"
    /\ open_conns' = open_conns - 1
    /\ q_pc' = "build"
    /\ UNCHANGED <<q_module, top_k, query_embedding, q_cursor, q_rows, results, q_failure>>
    /\ UNCHANGED <<db_table, db_seq, db_txn>>
    /\ UNCHANGED embVars

\* results = [{...} for r in rows]; return results
QBuildResults ==
    /\ q_pc = "build"
    /\ results' = q_rows
    /\ q_pc' = "returned"
    /\ UNCHANGED <<q_module, top_k, query_embedding, q_cursor, q_rows, q_failure>>
    /\ UNCHANGED <<embVars, dbVars>>

\* the step at q_pc raises: except Exception: return []  (a connection that
\* is open stays open)
QStepFails ==
    /\ q_pc \in QFailPoints
    /\ QHandleException(q_pc)
    /\ UNCHANGED <<q_module, top_k, query_embedding, q_cursor, q_rows>>
    /\ UNCHANGED <<embVars, dbVars>>

\* tables a run of inserts leaves behind: ids in insertion order
StoredRecords(es) ==
    [i \in 1..Len(es) |-> [id |-> i, fn |-> "doc", chunk |-> TextOf(i), emb |-> es[i]]]

InitQuery ==
    /\ IngestIdle
    /\ CleanIdle
    /\ ChunkIdle
    /\ EmbIdle
    /\ StoreIdle
    /\ \E es \in SeqsUpTo(EmbVals, MaxStoreRows) :
          /\ db_table = StoredRecords(es)
          /\ db_seq = Len(es)
    /\ db_txn = <<>>
    /\ open_conns = 0
    /\ q_module \in {"add_to_vector_db", "openai_client"}
    /\ top_k \in (0..MaxTopK) \cup {DefaultTopK}
    /\ query_embedding = 0
    /\ q_cursor = <<>>
    /\ q_rows = <<>>
    /\ results = <<>>
    /\ q_failure = "none"
    /\ q_pc = IF q_module = "openai_client" THEN "rewrite" ELSE "embed"

NextQuery ==
    \/ QRewrite /\ UNCHANGED <<ingVars, cleanVars, chunkVars, storeVars>>
    \/ QEmbedStart /\ UNCHANGED <<ingVars, cleanVars, chunkVars, storeVars>>
    \/ EmbCallRaises /\ UNCHANGED <<ingVars, cleanVars, chunkVars, dbVars, storeVars, queryVars>>
    \/ EmbCallAnswers /\ UNCHANGED <<ingVars, cleanVars, chunkVars, dbVars, storeVars, queryVars>>
    \/ EmbSleepDone /\ UNCHANGED <<ingVars, cleanVars, chunkVars, dbVars, storeVars, queryVars>>
    \/ QEmbedReturned /\ UNCHANGED <<ingVars, cleanVars, chunkVars, storeVars>>
    \/ QEmbedRaised /\ UNCHANGED <<ingVars, cleanVars, chunkVars, storeVars>>
    \/ QConnect /\ UNCHANGED <<ingVars, cleanVars, chunkVars, storeVars>>
    \/ QRegisterVector /\ UNCHANGED <<ingVars, cleanVars, chunkVars, storeVars>>
    \/ QExecute /\ UNCHANGED <<ingVars, cleanVars, chunkVars, storeVars>>
    \/ QFetchAll /\ UNCHANGED <<ingVars, cleanVars, chunkVars, storeVars>>
    \/ QClose /\ UNCHANGED <<ingVars, cleanVars, chunkVars, storeVars>>
    \/ QBuildResults /\ UNCHANGED <<ingVars, cleanVars, chunkVars, storeVars>>
    \/ QStepFails /\ UNCHANGED <<ingVars, cleanVars, chunkVars, storeVars>>

SpecQuery == InitQuery /\ [][NextQuery]_vars

\* ------------------------------------------------------ claims on the query
\* ids of the rows a result list holds
ResultIds == {results[i].id : i \in 1..Len(results)}

\* C8: a returned list has at most top_k entries and its distances never
\* decrease from one entry to the next; on an empty table the call returns
\* the empty list and does not raise.
C8_AtMostKSorted ==
    /\ q_pc = "returned" =>
          /\ Len(results) <= top_k
          /\ \A i \in 1..(Len(results) - 1) :
                results[i].distance <= results[i + 1].distance
    /\ db_table = <<>> =>
          /\ q_pc # "raised"
          /\ q_pc = "returned" => results = <<>>

C8_Witness ==
    /\ q_pc = "returned"
    /\ q_failure = "none"
    /\ Len(results) = top_k
    /\ Len(results) >= 2
    /\ results[1].distance < results[2].distance
    /\ results[1].id > results[2].id

\* C9: with no step failing, a query on a table of N rows returns exactly
\* min(top_k, N) distinct rows of the table, each with its distance to the
\* query vector, and no row left out is strictly closer than a returned one
\* (top_k = 6 on 3 rows returns 3).
C9_NearestMinKN ==
    (q_pc = "returned" /\ q_failure = "none") =>
        /\ Len(results) = Min(top_k, Len(db_table))
        /\ Cardinality(ResultIds) = Len(results)
        /\ \A i \in 1..Len(results) :
              \E k \in 1..Len(db_table) :
                  /\ db_table[k].id = results[i].id
                  /\ db_table[k].emb = results[i].emb
                  /\ results[i].distance = Distance(db_table[k].emb, query_embedding)
        /\ \A k \in 1..Len(db_table) :
              db_table[k].id \notin ResultIds =>
                \A i \in 1..Len(results) :
                    Distance(db_table[k].emb, query_embedding) >= results[i].distance

C9_Witness ==
    /\ q_pc = "returned"
    /\ q_failure = "none"
    /\ top_k = DefaultTopK
    /\ Len(db_table) = 3
    /\ Len(results) = 3
    /\ results[1].distance < results[3].distance

\* C10: the call never raises; when the rewrite request, the embedding
\* provider, the connection, the query, the fetch or the close fails, it
\* returns the empty list.
C10_NeverRaises ==
    /\ q_pc # "raised"
    /\ (q_pc = "returned" /\ q_failure # "none") => results = <<>>

\* the provider failed on every attempt and the call returned []
C10_Witness ==
    /\ q_pc = "returned"
    /\ q_failure = "provider"
    /\ emb_calls = EMBEDDING_MAX_RETRIES
    /\ db_table # <<>>
    /\ results = <<>>

\* the words of the i-th yielded chunk
WordsOfChunk(i) == WordsFromText(chunks[i])

\* the run has ended with the flush of a non-empty carry
Flushed == gen_pc = "done" /\ carry # <<>>

\* C21: every chunk yielded by the drain loop has exactly chunk_size words,
\* the chunk yielded by the final flush has 1 to chunk_size - 1 words, and
\* the last chunk_overlap words of a chunk are the first chunk_overlap words
\* of the chunk after it.
C21_SizesAndOverlap ==
    /\ \A i \in 1..Len(chunks) :
          IF Flushed /\ i = Len(chunks)
          THEN ChunkSizes[i] \in 1..(chunk_size - 1)
          ELSE ChunkSizes[i] = chunk_size
    /\ \A i \in 1..(Len(chunks) - 1) :
          /\ ChunkSizes[i + 1] >= chunk_overlap
          /\ SliceFrom(WordsOfChunk(i), ChunkSizes[i] - chunk_overlap)
                = SliceTo(WordsOfChunk(i + 1), chunk_overlap)

\* a finished run with full chunks and a shorter flushed chunk that holds
\* more than the overlap, over a document of different words
C21_Witness ==
    /\ Flushed
    /\ chunk_overlap > 0
    /\ Len(chunks) >= 2
    /\ ChunkSizes[Len(chunks)] > chunk_overlap
    /\ \E i, j \in 1..Len(doc) : doc[i] # doc[j] /\ i + 1 = j

\* the positions of the words of the i-th chunk
PositionsOf(i) == chunk_spans[i][1]..chunk_spans[i][2]

\* the positions of the words of the i-th chunk that no earlier chunk held
NewPositions(i) == {p \in PositionsOf(i) : \A j \in 1..(i - 1) : p \notin PositionsOf(j)}

\* C29 as stated: every yielded chunk holds at least one word of the
\* document that no earlier chunk held.
C29_EveryChunkHasNewWord ==
    \A i \in 1..Len(chunks) : NewPositions(i) # {}

\* C29 (as amended): a chunk yielded by the drain holds chunk_size -
\* chunk_overlap words no earlier chunk held (chunk_size for the first
\* chunk); the flushed chunk holds a new word unless chunk_overlap > 0,
\* n >= chunk_size and chunk_size - chunk_overlap divides n - chunk_overlap,
\* when it is exactly the chunk_overlap last words of the chunk before it.
C29_NewWordsPerChunk ==
    /\ carry = SubSeq(doc, nread - Len(carry) + 1, nread)
    /\ \A i \in 1..Len(chunks) :
          /\ WordsOfChunk(i) = SubSeq(doc, chunk_spans[i][1], chunk_spans[i][2])
          /\ IF Flushed /\ i = Len(chunks)
             THEN IF chunk_overlap > 0 /\ Len(doc) >= chunk_size
                     /\ (Len(doc) - chunk_overlap) % (chunk_size - chunk_overlap) = 0
                  THEN /\ NewPositions(i) = {}
                       /\ i > 1
                       /\ Len(WordsOfChunk(i)) = chunk_overlap
                       /\ chunk_spans[i][2] = chunk_spans[i - 1][2]
                  ELSE NewPositions(i) # {}
             ELSE Cardinality(NewPositions(i)) =
                     IF i = 1 THEN chunk_size ELSE chunk_size - chunk_overlap

\* a finished run whose flushed chunk repeats the end of the chunk before it
C29_Witness ==
    /\ Flushed
    /\ Len(chunks) >= 3
    /\ NewPositions(Len(chunks)) = {}
    /\ chunk_overlap >= 2

\* C25: at every point of the generator carry holds at most chunk_size
\* words, and holds chunk_size words only while the drain is due, whatever
\* the length of the document and 0 <= chunk_overlap < chunk_size.
C25_CarryBounded ==
    /\ Len(carry) <= chunk_size
    /\ Len(carry) = chunk_size => gen_pc = "drain"

\* the long document, after its first chunk: carry is full again
C25_Witness ==
    /\ doc = ScenarioDoc
    /\ Len(chunks) >= 1
    /\ Len(carry) = chunk_size
    /\ gen_pc = "drain"

\* C20: for every finite document and 0 <= chunk_overlap < chunk_size the
\* generator ends after finitely many chunks, and every pass of the drain loop
\* leaves carry strictly shorter than it found it.
C20_Terminates ==
    /\ <>(gen_pc = "done")
    /\ [][gen_pc = "drain" => Len(carry') < Len(carry)]_vars

\* a finished run with the largest overlap, which drained more than once
C20_Witness ==
    /\ gen_pc = "done"
    /\ chunk_overlap > 0
    /\ chunk_overlap = chunk_size - 1
    /\ Len(chunks) >= 3

\* ------------------------------------------------------------- ingest_file
\* ext not in ("pdf", "docx") is rejected
ValidExtensions == {"pdf", "docx"}

\* an exception of a callee that is caught and the loop resumed
PropagateRaiseSwallowed == "next"

\* ingest_file has no try block: an exception raised by the generator, by
\* generate_embedding_batch or by store_metadata_and_embedding_batch leaves it
PropagateRaise == "raised"

\* a word of the document written with a decomposed accent behind a
\* zero-width space: "e", U+200B, U+0301
DecomposedWord == "e_ZWSP_ACUTE"

\* the characters of a text whose words are single tokens
RECURSIVE Chars(_)
Chars(text) ==
    IF text = <<>> THEN <<>>
    ELSE (IF Head(text) = DecomposedWord THEN <<"e", "ZWSP", "ACUTE">> ELSE <<Head(text)>>)
            \o Chars(Tail(text))

\* clean_text_for_db(f"[chunk {total_chunks_processed}] " + chunk)
ChunkLabel(n, chunk) ==
    clean_text_for_db(
        <<"[", "c", "h", "u", "n", "k", " ", ToString(n), "]", " ">> \o Chars(chunk),
        DefaultMaxLen)

\* rows = [(file_name, "None", chunk_label, Vector(emb)) for ... in zip(...)]
RowsOf(labels, embs) ==
    [i \in 1..Min(Len(labels), Len(embs)) |->
        [fn |-> "doc", chunk |-> labels[i], emb |-> embs[i]]]

\* a sub-batch that is the whole list of rows
SubBatchWhole(rs, i, size) == rs

\* sub = rows[i:i + db_insert_batch_size]
SubBatch(rs, i, size) == SubSeq(rs, i + 1, Min(i + size, Len(rs)))

\* the documents of a run: none of more than MaxIngestWords words, the one
\* of a single word holding the word with the decomposed accent
IngestDocs ==
    {<<>>, <<DecomposedWord>>} \cup {[i \in 1..n |-> "a"] : n \in 2..MaxIngestWords}

InitIngest ==
    /\ CleanIdle
    /\ EmbIdle
    /\ DbEmpty
    /\ StoreIdle
    /\ QueryIdle
    /\ doc \in IngestDocs
    /\ chunk_size = 2
    /\ chunk_overlap = 1
    /\ carry = <<>>
    /\ nread = 0
    /\ chunks = <<>>
    /\ chunk_spans = <<>>
    /\ gen_pc = "idle"
    /\ ing_ext \in {"pdf", "txt"}
    /\ ing_file_exists \in BOOLEAN
    /\ embedding_batch_size \in 1..MaxBatchSize
    /\ db_insert_batch_size \in 1..MaxBatchSize
    /\ pending_chunk_labels = <<>>
    /\ batch_rows = <<>>
    /\ sub_start = 0
    /\ all_inserted_ids = <<>>
    /\ total_chunks_processed = 0
    /\ ing_final = FALSE
    /\ bucket_calls = 0
    /\ fs_accessed = FALSE
    /\ provider_calls = 0
    /\ store_calls = 0
    /\ faults = 0
    /\ embed_log = <<>>
    /\ provider_log = <<>>
    /\ insert_log = <<>>
    /\ table_exists \in BOOLEAN
    /\ et_pc = "idle"
    /\ et_ext_failed = FALSE
    /\ ing_pc = "bucket"
    /\ OtherIdle

\* create_bucket_if_not_exists(bucket_name): get_bucket, and create_bucket
\* when that raised or found nothing; every exception is printed and dropped
\* (the calls are counted up to the first)
IngBucket ==
    /\ ing_pc = "bucket"
    /\ \E calls \in {1, 2} : bucket_calls' = Min(bucket_calls + calls, 1)
    /\ ing_pc' = "table"
    /\ et_pc' = "connect"
    /\ UNCHANGED <<otherVars, ingArgs, ingLoop, fs_accessed, provider_calls, store_calls, faults,
                   ingCalls, table_exists, et_ext_failed>>
    /\ UNCHANGED <<chunkVars, embVars, dbVars, storeVars, queryVars, cleanVars>>

\* ensure_table_exists: conn = psycopg2.connect(db_url); register_vector;
\* cur = conn.cursor()
EtConnect ==
    /\ ing_pc = "table"
    /\ et_pc = "connect"
    /\ open_conns' = open_conns + 1
    /\ et_pc' = "extension"
    /\ UNCHANGED <<otherVars, ingArgs, ingLoop, ingLog, table_exists, et_ext_failed, ing_pc>>
    /\ UNCHANGED <<db_table, db_seq, db_txn>>
    /\ UNCHANGED <<chunkVars, embVars, storeVars, queryVars, cleanVars>>

\* try: cur.execute("CREATE EXTENSION IF NOT EXISTS vector;")
\* except Exception as e: print(...)
EtExtension ==
    /\ ing_pc = "table"
    /\ et_pc = "extension"
    /\ \E ok \in BOOLEAN :
          /\ ok \/ faults < MaxFaults
          /\ et_ext_failed' = ~ok
          /\ faults' = IF ok THEN faults ELSE faults + 1
    /\ et_pc' = "create"
    /\ UNCHANGED <<otherVars, ingArgs, ingLoop, bucket_calls, fs_accessed, provider_calls,
                   store_calls, ingCalls, table_exists, ing_pc>>
    /\ UNCHANGED <<chunkVars, embVars, dbVars, storeVars, queryVars, cleanVars>>

\* cur.execute(CREATE TABLE IF NOT EXISTS ...): the store refuses it in a
\* transaction whose earlier statement failed
EtCreateTable ==
    /\ ing_pc = "table"
    /\ et_pc = "create"
    /\ ~et_ext_failed
    /\ et_pc' = "commit"
    /\ UNCHANGED <<otherVars, ingArgs, ingLoop, ingLog, table_exists, et_ext_failed, ing_pc>>
    /\ UNCHANGED <<chunkVars, embVars, dbVars, storeVars, queryVars, cleanVars>>

\* conn.commit()
EtCommit ==
    /\ ing_pc = "table"
    /\ et_pc = "commit"
    /\ table_exists' = TRUE
    /\ et_pc' = "close"
    /\ UNCHANGED <<otherVars, ingArgs, ingLoop, ingLog, et_ext_failed, ing_pc>>
    /\ UNCHANGED <<chunkVars, embVars, dbVars, storeVars, queryVars, cleanVars>>

\* cur.close(); conn.close(); print; the function returns
EtClose ==
    /\ ing_pc = "table"
    /\ et_pc = "close"
    /\ open_conns' = open_conns - 1
    /\ et_pc' = "returned"
    /\ ing_pc' = "ext_check"
    /\ UNCHANGED <<otherVars, ingArgs, ingLoop, ingLog, table_exists, et_ext_failed>>
    /\ UNCHANGED <<db_table, db_seq, db_txn>>
    /\ UNCHANGED <<chunkVars, embVars, storeVars, queryVars, cleanVars>>

\* the step at et_pc raises; except Exception as e: print(...): the function
\* returns, and a connection that was opened is not closed
EtStepFails ==
    /\ ing_pc = "table"
    /\ et_pc \in {"connect", "create", "commit", "close"}
    /\ IF et_pc = "create" /\ et_ext_failed
       THEN faults' = faults
       ELSE faults < MaxFaults /\ faults' = faults + 1
    /\ et_pc' = "returned"
    /\ ing_pc' = "ext_check"
    /\ UNCHANGED <<otherVars, ingArgs, ingLoop, bucket_calls, fs_accessed, provider_calls,
                   store_calls, ingCalls, table_exists, et_ext_failed>>
    /\ UNCHANGED <<chunkVars, embVars, dbVars, storeVars, queryVars, cleanVars>>

\* ext = ...; if ext not in ("pdf", "docx"): raise ValueError; otherwise the
\* generator object and the empty lists are created
IngCheckExt ==
    /\ ing_pc = "ext_check"
    /\ IF ing_ext \in ValidExtensions
       THEN gen_pc' = "start" /\ ing_pc' = "next"
       ELSE gen_pc' = gen_pc /\ ing_pc' = "raised"
    /\ UNCHANGED <<otherVars, ingArgs, ingLoop, ingLog, etVars>>
    /\ UNCHANGED <<doc, chunk_size, chunk_overlap, carry, nread, chunks, chunk_spans>>
    /\ UNCHANGED <<embVars, dbVars, storeVars, queryVars, cleanVars>>

\* the first next() on the generator: if not os.path.isfile(file_path):
\* raise FileNotFoundError
IngGenStart ==
    /\ ing_pc = "next"
    /\ gen_pc = "start"
    /\ fs_accessed' = TRUE
    /\ IF ing_file_exists
       THEN gen_pc' = "words" /\ ing_pc' = ing_pc
       ELSE gen_pc' = "raised" /\ ing_pc' = PropagateRaise
    /\ UNCHANGED <<otherVars, ingArgs, ingLoop, bucket_calls, provider_calls, store_calls, faults,
                   ingCalls, etVars>>
    /\ UNCHANGED <<doc, chunk_size, chunk_overlap, carry, nread, chunks, chunk_spans>>
    /\ UNCHANGED <<embVars, dbVars, storeVars, queryVars, cleanVars>>

\* the for loop waits for the generator's next value
GeneratorRuns ==
    /\ ing_pc = "next"
    /\ Len(chunks) = total_chunks_processed

IngAppendWord == GeneratorRuns /\ AppendWord

IngYieldFromCarry == GeneratorRuns /\ YieldFromCarry

IngFlushRemaining == GeneratorRuns /\ FlushRemaining

\* the loop body: count the chunk, label it, and flush when the pending
\* list has embedding_batch_size labels
IngTakeChunk ==
    /\ ing_pc = "next"
    /\ Len(chunks) > total_chunks_processed
    /\ total_chunks_processed' = total_chunks_processed + 1
    /\ pending_chunk_labels' =
          Append(pending_chunk_labels,
                 ChunkLabel(total_chunks_processed', chunks[total_chunks_processed']))
    /\ ing_pc' = IF Len(pending_chunk_labels') >= embedding_batch_size
                 THEN "flush" ELSE "next"
    /\ UNCHANGED <<otherVars, ingArgs, batch_rows, sub_start, all_inserted_ids, ing_final, ingLog,
                   etVars>>
    /\ UNCHANGED <<chunkVars, embVars, dbVars, storeVars, queryVars, cleanVars>>

\* the generator is exhausted: if pending_chunk_labels: flush; return
IngExhausted ==
    /\ ing_pc = "next"
    /\ gen_pc = "done"
    /\ Len(chunks) = total_chunks_processed
    /\ IF pending_chunk_labels # <<>>
       THEN ing_final' = TRUE /\ ing_pc' = "flush"
       ELSE ing_final' = ing_final /\ ing_pc' = "returned"
    /\ UNCHANGED <<otherVars, ingArgs, pending_chunk_labels, batch_rows, sub_start, all_inserted_ids,
                   total_chunks_processed, ingLog, etVars>>
    /\ UNCHANGED <<chunkVars, embVars, dbVars, storeVars, queryVars, cleanVars>>

\* flush_embedding_and_insert: embeddings = generate_embedding_batch(labels)
IngFlushStart ==
    /\ ing_pc = "flush"
    /\ texts' = pending_chunk_labels
    /\ emb_attempt' = 0
    /\ emb_calls' = 0
    /\ emb_raised' = 0
    /\ emb_wrong' = 0
    /\ emb_backoff' = 0
    /\ emb_sleeps' = 0
    /\ embeddings' = <<>>
    /\ emb_pc' = "call"
    /\ ing_pc' = "embedding"
    /\ embed_log' = Append(embed_log, pending_chunk_labels)
    /\ UNCHANGED <<otherVars, ingArgs, ingLoop, bucket_calls, fs_accessed, provider_calls, store_calls,
                   faults, provider_log, insert_log, etVars>>
    /\ UNCHANGED <<chunkVars, dbVars, storeVars, queryVars, cleanVars>>

\* a sleep of the run is taken with the smallest jitter
SmallestJitter == 0

IngEmbCallRaises ==
    /\ ing_pc = "embedding"
    /\ faults < MaxFaults
    /\ EmbCallRaises
    /\ emb_pc' = "sleep" => emb_backoff' = EmbBackoff(emb_attempt', SmallestJitter)
    /\ provider_calls' = provider_calls + 1
    /\ faults' = faults + 1
    /\ provider_log' = Append(provider_log, texts)
    /\ UNCHANGED <<otherVars, ingArgs, ingLoop, bucket_calls, fs_accessed, store_calls, embed_log,
                   insert_log, etVars, ing_pc>>
    /\ UNCHANGED <<chunkVars, dbVars, storeVars, queryVars, cleanVars>>

\* every vector the provider answers with is the point 0
IngEmbCallAnswers ==
    /\ ing_pc = "embedding"
    /\ EmbCallAnswers
    /\ emb_pc' = "sleep" => emb_backoff' = EmbBackoff(emb_attempt', SmallestJitter)
    /\ \A i \in 1..Len(embeddings') : embeddings'[i] = 0
    /\ emb_wrong' = emb_wrong \/ faults < MaxFaults
    /\ provider_calls' = provider_calls + 1
    /\ faults' = IF emb_wrong' = emb_wrong THEN faults ELSE faults + 1
    /\ provider_log' = Append(provider_log, texts)
    /\ UNCHANGED <<otherVars, ingArgs, ingLoop, bucket_calls, fs_accessed, store_calls, embed_log,
                   insert_log, etVars, ing_pc>>
    /\ UNCHANGED <<chunkVars, dbVars, storeVars, queryVars, cleanVars>>

IngEmbSleepDone ==
    /\ ing_pc = "embedding"
    /\ EmbSleepDone
    /\ UNCHANGED ingVars
    /\ UNCHANGED <<chunkVars, dbVars, storeVars, queryVars, cleanVars>>

\* generate_embedding_batch returned: the rows are built
IngEmbedReturned ==
    /\ ing_pc = "embedding"
    /\ emb_pc = "returned"
    /\ batch_rows' = RowsOf(pending_chunk_labels, embeddings)
    /\ sub_start' = 0
    /\ ing_pc' = "insert"
    \* the finished call's locals are gone
    /\ texts' = <<>>
    /\ emb_attempt' = 0
    /\ emb_calls' = 0
    /\ emb_raised' = 0
    /\ emb_wrong' = 0
    /\ emb_backoff' = 0
    /\ emb_sleeps' = 0
    /\ embeddings' = <<>>
    /\ emb_pc' = "idle"
    /\ UNCHANGED <<otherVars, ingArgs, pending_chunk_labels, all_inserted_ids, total_chunks_processed,
                   ing_final, ingLog, etVars>>
    /\ UNCHANGED <<chunkVars, dbVars, storeVars, queryVars, cleanVars>>

\* generate_embedding_batch raised after its retries
IngEmbedRaised ==
    /\ ing_pc = "embedding"
    /\ emb_pc = "raised"
    /\ ing_pc' = PropagateRaise
    /\ UNCHANGED <<otherVars, ingArgs, ingLoop, ingLog, etVars>>
    /\ UNCHANGED <<chunkVars, embVars, dbVars, storeVars, queryVars, cleanVars>>

\* for i in range(0, len(rows), db_insert_batch_size):
\*     inserted_ids = store_metadata_and_embedding_batch(rows[i:i + size])
IngInsertStart ==
    /\ ing_pc = "insert"
    /\ sub_start < Len(batch_rows)
    /\ rows' = SubBatch(batch_rows, sub_start, db_insert_batch_size)
    /\ db_attempt' = 0
    /\ conn' = "None"
    /\ cur_result' = <<>>
    /\ stmt_count' = 0
    /\ ids' = <<>>
    /\ inserted_ids' = <<>>
    /\ seq_at_call' = db_seq
    /\ st_backoff' = 0
    /\ st_sleeps' = 0
    /\ st_pc' = "entry"
    /\ store_calls' = store_calls + 1
    /\ insert_log' = Append(insert_log, rows')
    /\ ing_pc' = "inserting"
    /\ UNCHANGED <<otherVars, ingArgs, ingLoop, bucket_calls, fs_accessed, provider_calls, faults,
                   embed_log, provider_log, etVars>>
    /\ UNCHANGED <<chunkVars, embVars, dbVars, queryVars, cleanVars>>

\* a step of the running store call that does not fail
IngStoreStep ==
    /\ ing_pc = "inserting"
    /\ \/ StReturnEmpty
       \/ StEnter
       \/ StBegin
       \/ StConnect
       \/ table_exists /\ StExecuteValues
       \/ StFetchAll
       \/ StCommit
       \/ StCurClose
       \/ StConnClose
       \/ StSleepDone
    /\ UNCHANGED ingVars
    /\ UNCHANGED <<chunkVars, embVars, queryVars, cleanVars>>

\* the failures an attempt that fails at pc counts for: the failing step,
\* unless it is the INSERT into a table that was never created, and the
\* rollback when it fails too
AttemptFaults(pc, missing, conn_before, conn_after) ==
    (IF pc = "execute" /\ missing THEN 0 ELSE 1)
        + (IF conn_before = "open" /\ conn_after = "open" THEN 1 ELSE 0)

\* an attempt of the running store call fails; the INSERT always fails when
\* the table was never created
IngStoreAttemptFails ==
    /\ ing_pc = "inserting"
    /\ StAttemptFails
    /\ st_pc' = "sleep" => st_backoff' = DbBackoff(db_attempt, SmallestJitter)
    /\ faults' = faults + AttemptFaults(st_pc, ~table_exists, conn, conn')
    /\ faults' <= MaxFaults
    /\ UNCHANGED <<otherVars, ingArgs, ingLoop, bucket_calls, fs_accessed, provider_calls,
                   store_calls, ingCalls, etVars, ing_pc>>
    /\ UNCHANGED <<chunkVars, embVars, queryVars, cleanVars>>

\* all_inserted_ids.extend(inserted_ids); next sub-batch, or the flush is
\* over: the pending lists are emptied, or (final flush) ingest_file returns
IngInsertReturned ==
    /\ ing_pc = "inserting"
    /\ st_pc = "returned"
    /\ all_inserted_ids' = all_inserted_ids \o inserted_ids
    /\ sub_start' = sub_start + db_insert_batch_size
    /\ IF sub_start' < Len(batch_rows)
       THEN /\ ing_pc' = "insert"
            /\ UNCHANGED <<pending_chunk_labels, batch_rows>>
       ELSE /\ ing_pc' = IF ing_final THEN "returned" ELSE "next"
            /\ pending_chunk_labels' = <<>>
            /\ batch_rows' = <<>>
    \* the finished call's locals are gone
    /\ rows' = <<>>
    /\ db_attempt' = 0
    /\ conn' = "None"
    /\ cur_result' = <<>>
    /\ stmt_count' = 0
    /\ ids' = <<>>
    /\ inserted_ids' = <<>>
    /\ seq_at_call' = 0
    /\ st_backoff' = 0
    /\ st_sleeps' = 0
    /\ st_pc' = "idle"
    /\ UNCHANGED <<otherVars, ingArgs, total_chunks_processed, ing_final, ingLog, etVars>>
    /\ UNCHANGED <<chunkVars, embVars, dbVars, queryVars, cleanVars>>

\* store_metadata_and_embedding_batch raised after its retries
IngInsertRaised ==
    /\ ing_pc = "inserting"
    /\ st_pc = "raised"
    /\ ing_pc' = PropagateRaise
    /\ UNCHANGED <<otherVars, ingArgs, ingLoop, ingLog, etVars>>
    /\ UNCHANGED <<chunkVars, embVars, dbVars, storeVars, queryVars, cleanVars>>

NextIngest ==
    \/ IngBucket
    \/ EtConnect
    \/ EtExtension
    \/ EtCreateTable
    \/ EtCommit
    \/ EtClose
    \/ EtStepFails
    \/ IngCheckExt
    \/ IngGenStart
    \/ IngAppendWord
    \/ IngYieldFromCarry
    \/ IngFlushRemaining
    \/ IngTakeChunk
    \/ IngExhausted
    \/ IngFlushStart
    \/ IngEmbCallRaises
    \/ IngEmbCallAnswers
    \/ IngEmbSleepDone
    \/ IngEmbedReturned
    \/ IngEmbedRaised
    \/ IngInsertStart
    \/ IngStoreStep
    \/ IngStoreAttemptFails
    \/ IngInsertReturned
    \/ IngInsertRaised

SpecIngest == InitIngest /\ [][NextIngest]_vars

\* the text starts with "[chunk i]"
HasChunkPrefix(text, i) ==
    /\ Len(text) >= 9
    /\ SubSeq(text, 1, 9) = <<"[", "c", "h", "u", "n", "k", " ", ToString(i), "]">>

\* C15: when ingest_file returns after streaming N chunks, exactly N rows
\* were added to the table (empty before the run), exactly N ids are
\* returned, and the chunk_text of the i-th added row starts with "[chunk i]".
C15_ExactlyNRows ==
    ing_pc = "returned" =>
        /\ Len(db_table) = total_chunks_processed
        /\ Len(all_inserted_ids) = total_chunks_processed
        /\ \A i \in 1..Len(db_table) : HasChunkPrefix(db_table[i].chunk, i)

\* C16: when CREATE EXTENSION fails, ensure_table_exists does not return
\* normally and ingest_file does not go on to stream, embed or insert.
C16_ExtensionFailureFatal ==
    et_ext_failed =>
        /\ et_pc # "returned"
        /\ ing_pc \in {"table", "raised"}
        /\ total_chunks_processed = 0
        /\ provider_calls = 0
        /\ store_calls = 0

\* C17: when ensure_table_exists has returned, when the store call has
\* returned, has raised or sleeps before a retry, and when the query has
\* returned or raised, no connection is open.
C17_ConnectionsClosed ==
    (\/ et_pc = "returned"
     \/ st_pc \in {"returned", "raised", "sleep"}
     \/ q_pc \in {"returned", "raised"})
        => open_conns = 0

\* C18: a run of ingest_file on a file whose extension is neither pdf nor docx
\* makes no bucket call, opens no store connection and issues no DDL,
\* touches no file and calls no provider.
C18_InvalidExtensionNoIO ==
    (ing_pc # "idle" /\ ing_ext \notin ValidExtensions)
        => /\ bucket_calls = 0
           /\ et_pc = "idle"
           /\ open_conns = 0
           /\ ~fs_accessed
           /\ provider_calls = 0

\* C19: once generate_embedding_batch or store_metadata_and_embedding_batch
\* has raised, the next step of the run is ingest_file raising, and after
\* that no chunk is streamed, no provider call and no insert call is made.
C19_AbortOnExhaustion ==
    [][/\ (emb_pc = "raised" \/ st_pc = "raised") => ing_pc' = "raised"
       /\ ing_pc = "raised" =>
             UNCHANGED <<chunks, nread, total_chunks_processed, provider_calls,
                         store_calls, db_table>>]_vars

\* the store call of the first batch used up its attempts and the run ended
\* while the generator still had a chunk to give
C19_Witness ==
    /\ ing_pc = "raised"
    /\ st_pc = "raised"
    /\ provider_calls >= 1
    /\ gen_pc \notin {"done", "idle", "raised"}

\* the row the store holds for the i-th chunk of the run once the insert call
\* that carried it has returned id
StoredRow(i, id) ==
    [id |-> id, fn |-> "doc",
     chunk |-> clean_text_for_db(ChunkLabel(i, chunks[i]), DefaultMaxLen),
     emb |-> 0]

\* C23: when ingest_file has raised because generate_embedding_batch or
\* store_metadata_and_embedding_batch raised, every row whose id an earlier
\* insert call of the run returned is in the table as it was committed.
C23_CommittedRowsSurvive ==
    (ing_pc = "raised" /\ (emb_pc = "raised" \/ st_pc = "raised")) =>
        \A i \in 1..Len(all_inserted_ids) :
            \E k \in 1..Len(db_table) : db_table[k] = StoredRow(i, all_inserted_ids[i])

\* the run ended in a store call that used up its attempts, after an
\* earlier insert call of the run had returned
C23_Witness ==
    /\ ing_pc = "raised"
    /\ st_pc = "raised"
    /\ all_inserted_ids # <<>>
    /\ store_calls >= 2

\* the labels of the chunks the generator produced, in document order
AllLabels == [i \in 1..Len(chunks) |-> ChunkLabel(i, chunks[i])]

\* the lists of a log, one after the other
RECURSIVE Concat(_)
Concat(log) == IF log = <<>> THEN <<>> ELSE Head(log) \o Concat(Tail(log))

\* the log without the entries that repeat the entry before them
RECURSIVE Dedup(_)
Dedup(log) ==
    IF Len(log) <= 1 THEN log
    ELSE IF log[1] = log[2] THEN Dedup(Tail(log))
    ELSE <<log[1]>> \o Dedup(Tail(log))

\* the chunk_text column of the rows
LabelsOfRows(rs) == [i \in 1..Len(rs) |-> rs[i].chunk]

\* every list of the log has size entries, the last one 1..size
FullExceptLast(log, size) ==
    /\ \A k \in 1..(Len(log) - 1) : Len(log[k]) = size
    /\ log # <<>> => Len(log[Len(log)]) \in 1..size

\* every insert call got 1..db_insert_batch_size rows, a contiguous part of
\* one batch, and the calls together got every row once, in order
InsertCallsWithinBatch ==
    /\ \A j \in 1..Len(insert_log) :
          /\ Len(insert_log[j]) \in 1..db_insert_batch_size
          /\ \E k \in 1..Len(embed_log) :
                \E from \in 1..Len(embed_log[k]) :
                    /\ from + Len(insert_log[j]) - 1 <= Len(embed_log[k])
                    /\ LabelsOfRows(insert_log[j]) =
                          SubSeq(embed_log[k], from, from + Len(insert_log[j]) - 1)
    /\ Concat([j \in 1..Len(insert_log) |-> LabelsOfRows(insert_log[j])]) = AllLabels

\* C24 as stated: in a run that returned, the requests made to the provider
\* carry every chunk exactly once in document order, every request but the
\* last carries embedding_batch_size texts and the last 1..embedding_batch_size,
\* and every insert call got at most db_insert_batch_size rows of one batch.
C24_EachChunkSentOnce ==
    ing_pc = "returned" =>
        /\ Concat(provider_log) = AllLabels
        /\ FullExceptLast(provider_log, embedding_batch_size)
        /\ InsertCallsWithinBatch

\* C24, amended: in a run that returned, the calls of generate_embedding_batch
\* carry every chunk exactly once in document order, every call but the last
\* with embedding_batch_size texts and the last with 1..embedding_batch_size;
\* each call sends its whole batch to the provider once per attempt, 1 to
\* EMBEDDING_MAX_RETRIES times in a row; every insert call got at most
\* db_insert_batch_size rows of one batch.
C24_EachChunkEmbeddedOnce ==
    ing_pc = "returned" =>
        /\ Concat(embed_log) = AllLabels
        /\ FullExceptLast(embed_log, embedding_batch_size)
        /\ Dedup(provider_log) = embed_log
        /\ \A k \in 1..Len(embed_log) :
              Cardinality({j \in 1..Len(provider_log) : provider_log[j] = embed_log[k]})
                  \in 1..EMBEDDING_MAX_RETRIES
        /\ InsertCallsWithinBatch

\* a run that returned after two batches, one of them sent to the provider
\* more than once, and two insert calls
C24_Witness ==
    /\ ing_pc = "returned"
    /\ Len(embed_log) >= 2
    /\ Len(provider_log) > Len(embed_log)
    /\ Len(insert_log) >= 2

\* ------------------------------------------------ flush_embedding_and_insert
\* one flush of a batch of one label, the provider and the store failing as
\* they may
InitFlush ==
    /\ IngestIdle
    /\ CleanIdle
    /\ ChunkIdle
    /\ DbEmpty
    /\ StoreIdle
    /\ QueryIdle
    /\ texts = <<ChunkLabel(1, <<"a">>)>>
    /\ emb_attempt = 0
    /\ emb_calls = 0
    /\ emb_raised = 0
    /\ emb_wrong = 0
    /\ emb_backoff = 0
    /\ emb_sleeps = 0
    /\ embeddings = <<>>
    /\ emb_pc = "call"

\* rows = [...]; store_metadata_and_embedding_batch(rows[0:db_insert_batch_size])
FlushInsertStart ==
    /\ emb_pc = "returned"
    /\ st_pc = "idle"
    /\ rows' = SubBatch(RowsOf(texts, embeddings), 0, db_insert_batch_size)
    /\ seq_at_call' = db_seq
    /\ st_pc' = "entry"
    /\ UNCHANGED <<db_attempt, conn, cur_result, stmt_count, ids, inserted_ids, st_backoff,
                   st_sleeps>>
    /\ UNCHANGED <<ingVars, cleanVars, chunkVars, embVars, dbVars, queryVars>>

NextFlush ==
    \/ EmbCallRaises /\ UNCHANGED <<ingVars, cleanVars, chunkVars, dbVars, storeVars, queryVars>>
    \/ EmbCallAnswers /\ UNCHANGED <<ingVars, cleanVars, chunkVars, dbVars, storeVars, queryVars>>
    \/ EmbSleepDone /\ UNCHANGED <<ingVars, cleanVars, chunkVars, dbVars, storeVars, queryVars>>
    \/ FlushInsertStart
    \/ StEnter /\ UNCHANGED <<ingVars, cleanVars, chunkVars, embVars, queryVars>>
    \/ StBegin /\ UNCHANGED <<ingVars, cleanVars, chunkVars, embVars, queryVars>>
    \/ StConnect /\ UNCHANGED <<ingVars, cleanVars, chunkVars, embVars, queryVars>>
    \/ StExecuteValues /\ UNCHANGED <<ingVars, cleanVars, chunkVars, embVars, queryVars>>
    \/ StFetchAll /\ UNCHANGED <<ingVars, cleanVars, chunkVars, embVars, queryVars>>
    \/ StCommit /\ UNCHANGED <<ingVars, cleanVars, chunkVars, embVars, queryVars>>
    \/ StCurClose /\ UNCHANGED <<ingVars, cleanVars, chunkVars, embVars, queryVars>>
    \/ StConnClose /\ UNCHANGED <<ingVars, cleanVars, chunkVars, embVars, queryVars>>
    \/ StAttemptFails /\ UNCHANGED <<ingVars, cleanVars, chunkVars, embVars, queryVars>>
    \/ StSleepDone /\ UNCHANGED <<ingVars, cleanVars, chunkVars, embVars, queryVars>>

SpecFlush == InitFlush /\ [][NextFlush]_vars

\* the delay d of the sleep after failed attempt a lies in
\* [base * 2^(a-1), base * 2^(a-1) + span), and is longer than every delay
\* the sleep after attempt a - 1 can have
InBackoffWindow(d, base, a, span) ==
    /\ d >= base * 2 ^ (a - 1)
    /\ d < base * 2 ^ (a - 1) + span
    /\ a > 1 => d >= base * 2 ^ (a - 2) + span

\* C26: the sleep after failed attempt a of generate_embedding_batch, for
\* 1 <= a < EMBEDDING_MAX_RETRIES, lasts at least base * 2^(a-1) and less than
\* base * 2^(a-1) + 0.5 s, longer than any sleep after attempt a - 1; the call
\* has slept once per failed attempt but the last, EMBEDDING_MAX_RETRIES - 1
\* times when it raises; the store call does the same with base 0.5 s, jitter
\* below 0.3 s and DB_MAX_RETRIES attempts.
C26_BackoffShape ==
    /\ emb_pc = "sleep" =>
          /\ emb_attempt \in 1..(EMBEDDING_MAX_RETRIES - 1)
          /\ InBackoffWindow(emb_backoff, EMBEDDING_RETRY_BASE, emb_attempt, EmbJitterSpan)
    /\ emb_pc \in {"call", "sleep"} => emb_sleeps = emb_attempt
    /\ emb_pc = "returned" => emb_sleeps = emb_attempt - 1
    /\ emb_pc = "raised" =>
          emb_attempt = EMBEDDING_MAX_RETRIES /\ emb_sleeps = EMBEDDING_MAX_RETRIES - 1
    /\ st_pc = "sleep" =>
          /\ db_attempt \in 1..(DB_MAX_RETRIES - 1)
          /\ InBackoffWindow(st_backoff, DB_RETRY_BASE, db_attempt, DbJitterSpan)
    /\ st_pc \in {"begin", "sleep"} => st_sleeps = db_attempt
    /\ (st_pc \in StFailPoints \/ (st_pc = "returned" /\ rows # <<>>)) =>
          st_sleeps = db_attempt - 1
    /\ st_pc = "raised" =>
          db_attempt = DB_MAX_RETRIES /\ st_sleeps = DB_MAX_RETRIES - 1

\* the embedding call slept and returned, and the store call now sleeps
\* for the last time, with the largest jitter
C26_Witness ==
    /\ emb_pc = "returned"
    /\ emb_sleeps >= 1
    /\ st_pc = "sleep"
    /\ db_attempt = DB_MAX_RETRIES - 1
    /\ st_sleeps = DB_MAX_RETRIES - 1
    /\ st_backoff = DbBackoff(db_attempt, 999)

\* the texts of all the requests made to the provider
SentTexts ==
    UNION {{provider_log[j][i] : i \in 1..Len(provider_log[j])} : j \in 1..Len(provider_log)}

\* C30: the chunk_text of every row of the table is, character for
\* character, a text that was sent to the provider, and the sanitization
\* inside the store call leaves every label sent to the provider as it is.
C30_StoredTextIsEmbeddedText ==
    /\ \A k \in 1..Len(db_table) : db_table[k].chunk \in SentTexts
    /\ \A label \in SentTexts : clean_text_for_db(label, DefaultMaxLen) = label

\* ------------------------------------------- two concurrent ingest_file runs
\* the chunks chunk_generator_from_file yields for the words d, carry being
\* car: the word loop, the drain and the final flush
RECURSIVE GenChunks(_, _, _, _)
GenChunks(d, car, c, o) ==
    IF CarryFull(car, c)
    THEN <<ChunkText(ChunkWords(car, c))>> \o GenChunks(d, KeepOverlap(car, c, o), c, o)
    ELSE IF d = <<>>
         THEN (IF car # <<>> THEN <<ChunkText(FlushWords(car, o))>> ELSE <<>>)
         ELSE GenChunks(Tail(d), Append(car, Head(d)), c, o)

\* the chunks of the second run's document
OtherChunks == GenChunks(other_doc, <<>>, chunk_size, chunk_overlap)

\* rows.append((file_name, "None", chunk_label, Vector(emb))) in the second
\* run, whose file is doc2
OtherRowsOf(labels) ==
    [i \in 1..Len(labels) |-> [fn |-> "doc2", chunk |-> labels[i], emb |-> 0]]

\* both runs have made sure of the bucket and of the table, and are given
\* the same batch sizes
InitTwoIngests ==
    /\ CleanIdle
    /\ EmbIdle
    /\ DbEmpty
    /\ StoreIdle
    /\ QueryIdle
    /\ doc \in {[i \in 1..n |-> "a"] : n \in 1..MaxIngestWords}
    /\ chunk_size = 2
    /\ chunk_overlap = 1
    /\ carry = <<>>
    /\ nread = 0
    /\ chunks = <<>>
    /\ chunk_spans = <<>>
    /\ gen_pc = "idle"
    /\ ing_ext = "pdf"
    /\ ing_file_exists = TRUE
    /\ embedding_batch_size \in 1..MaxBatchSize
    /\ db_insert_batch_size \in 1..MaxBatchSize
    /\ pending_chunk_labels = <<>>
    /\ batch_rows = <<>>
    /\ sub_start = 0
    /\ all_inserted_ids = <<>>
    /\ total_chunks_processed = 0
    /\ ing_final = FALSE
    /\ bucket_calls = 1
    /\ fs_accessed = FALSE
    /\ provider_calls = 0
    /\ store_calls = 0
    /\ faults = 0
    /\ embed_log = <<>>
    /\ provider_log = <<>>
    /\ insert_log = <<>>
    /\ table_exists = TRUE
    /\ et_pc = "returned"
    /\ et_ext_failed = FALSE
    /\ ing_pc = "ext_check"
    /\ other_doc \in {[i \in 1..n |-> "b"] : n \in 1..MaxIngestWords}
    /\ other_total_chunks_processed = 0
    /\ other_pending_chunk_labels = <<>>
    /\ other_sub_start = 0
    /\ other_all_inserted_ids = <<>>
    /\ other_final = FALSE
    /\ other_pc = "next"

\* the second run's loop body: count the chunk, label it, and flush when
\* the pending list has embedding_batch_size labels
OtherTakeChunk ==
    /\ other_pc = "next"
    /\ other_total_chunks_processed < Len(OtherChunks)
    /\ other_total_chunks_processed' = other_total_chunks_processed + 1
    /\ other_pending_chunk_labels' =
          Append(other_pending_chunk_labels,
                 ChunkLabel(other_total_chunks_processed',
                            OtherChunks[other_total_chunks_processed']))
    /\ other_pc' = IF Len(other_pending_chunk_labels') >= embedding_batch_size
                   THEN "embedding" ELSE "next"
    /\ UNCHANGED <<other_doc, other_sub_start, other_all_inserted_ids, other_final>>
    /\ UNCHANGED <<ingArgs, ingLoop, ingLog, etVars, ing_pc>>
    /\ UNCHANGED <<chunkVars, embVars, dbVars, storeVars, queryVars, cleanVars>>

\* the second run's generator is exhausted: if pending_chunk_labels: flush
OtherExhausted ==
    /\ other_pc = "next"
    /\ other_total_chunks_processed = Len(OtherChunks)
    /\ IF other_pending_chunk_labels # <<>>
       THEN other_final' = TRUE /\ other_pc' = "embedding"
       ELSE other_final' = other_final /\ other_pc' = "returned"
    /\ UNCHANGED <<other_doc, other_total_chunks_processed, other_pending_chunk_labels,
                   other_sub_start, other_all_inserted_ids>>
    /\ UNCHANGED <<ingArgs, ingLoop, ingLog, etVars, ing_pc>>
    /\ UNCHANGED <<chunkVars, embVars, dbVars, storeVars, queryVars, cleanVars>>

\* the second run's generate_embedding_batch call returns at its first attempt
OtherEmbed ==
    /\ other_pc = "embedding"
    /\ other_sub_start' = 0
    /\ other_pc' = "insert"
    /\ UNCHANGED <<other_doc, other_total_chunks_processed, other_pending_chunk_labels,
                   other_all_inserted_ids, other_final>>
    /\ UNCHANGED <<ingArgs, ingLoop, ingLog, etVars, ing_pc>>
    /\ UNCHANGED <<chunkVars, embVars, dbVars, storeVars, queryVars, cleanVars>>

\* one store call of the second run, on its own connection, whose first
\* attempt succeeds: the sub-batch is inserted and committed, the ids are
\* added to the run's list
OtherInsert ==
    /\ other_pc = "insert"
    /\ LET sub == SubBatch(OtherRowsOf(other_pending_chunk_labels), other_sub_start,
                           db_insert_batch_size)
           assigned == SerialIds(Len(sub), db_seq)
       IN /\ db_table' = db_table \o InsertedRecords(sub, assigned)
          /\ db_seq' = db_seq + Len(sub)
          /\ other_all_inserted_ids' =
                other_all_inserted_ids \o CursorRows(assigned, DB_INSERT_BATCH_SIZE)
          /\ insert_log' = Append(insert_log, sub)
    /\ other_sub_start' = other_sub_start + db_insert_batch_size
    /\ IF other_sub_start' < Len(other_pending_chunk_labels)
       THEN /\ other_pc' = "insert"
            /\ UNCHANGED other_pending_chunk_labels
       ELSE /\ other_pc' = IF other_final THEN "returned" ELSE "next"
            /\ other_pending_chunk_labels' = <<>>
    /\ UNCHANGED <<other_doc, other_total_chunks_processed, other_final>>
    /\ UNCHANGED <<ingArgs, ingLoop, bucket_calls, fs_accessed, provider_calls, store_calls,
                   faults, embed_log, provider_log, etVars, ing_pc>>
    /\ UNCHANGED <<db_txn, open_conns>>
    /\ UNCHANGED <<chunkVars, embVars, storeVars, queryVars, cleanVars>>

\* the steps of the first run, with at most MaxConcurrentFaults failures,
\* interleaved with the steps of the second
NextTwoIngests ==
    \/ IngCheckExt
    \/ IngGenStart
    \/ IngAppendWord
    \/ IngYieldFromCarry
    \/ IngFlushRemaining
    \/ IngTakeChunk
    \/ IngExhausted
    \/ IngFlushStart
    \/ IngEmbCallRaises /\ faults' <= MaxConcurrentFaults
    \/ IngEmbCallAnswers /\ faults' <= MaxConcurrentFaults
    \/ IngEmbSleepDone
    \/ IngEmbedReturned
    \/ IngInsertStart
    \/ IngStoreStep
    \/ IngStoreAttemptFails /\ faults' <= MaxConcurrentFaults
    \/ IngInsertReturned
    \/ OtherTakeChunk
    \/ OtherExhausted
    \/ OtherEmbed
    \/ OtherInsert

SpecTwoIngests == InitTwoIngests /\ [][NextTwoIngests]_vars

\* the rows of the table that carry the file name fn
RowsOfFile(fn) == SelectSeq(db_table, LAMBDA r : r.fn = fn)

\* the table holds n rows of the file, the i-th labelled [chunk i]
OwnRowsExactly(fn, n) ==
    /\ Len(RowsOfFile(fn)) = n
    /\ \A i \in 1..Len(RowsOfFile(fn)) : HasChunkPrefix(RowsOfFile(fn)[i].chunk, i)

\* the pending labels are those of the last chunks counted
PendingIsOwn(pending, total, chs) ==
    /\ total <= Len(chs)
    /\ Len(pending) <= total
    /\ \A i \in 1..Len(pending) :
          pending[i] = ChunkLabel(total - Len(pending) + i, chs[total - Len(pending) + i])

\* C28: in every interleaving of two ingest_file runs on different documents
\* no insert call carries rows of both documents; once both runs have
\* returned the table holds for each document exactly its own N rows,
\* labelled [chunk 1] .. [chunk N] and carrying its file name; each run's
\* counter and pending list follow its own document only.
C28_ConcurrentRunsIsolated ==
    /\ \A j \in 1..Len(insert_log) :
          \A i, k \in 1..Len(insert_log[j]) : insert_log[j][i].fn = insert_log[j][k].fn
    /\ (ing_pc = "returned" /\ other_pc = "returned") =>
          /\ OwnRowsExactly("doc", total_chunks_processed)
          /\ OwnRowsExactly("doc2", other_total_chunks_processed)
    /\ PendingIsOwn(pending_chunk_labels, total_chunks_processed, chunks)
    /\ PendingIsOwn(other_pending_chunk_labels, other_total_chunks_processed, OtherChunks)

\* ----------------------------------------------- clean_text_for_db, run
\* the characters the enumerated arguments are made of
CleanAlphabet == {"NUL", "TAB", "LF", "CR", "FF", "VT", " ", "ZWSP", "e", "ACUTE"}

\* n times the letter "e"
Padding(n) == [i \in 1..n |-> "e"]

\* the lengths of the run of letters that follows the free part: none, and
\* runs that bring the string just below, to and above the small max_len
PaddingLengths == {0, MaxCleanLen - 3, MaxCleanLen, MaxCleanLen + 1}

\* the smallest max_len the length bound is stated for
MinCleanLen == Len(TruncationMarker)

InitClean ==
    /\ IngestIdle
    /\ ChunkIdle
    /\ EmbIdle
    /\ DbEmpty
    /\ StoreIdle
    /\ QueryIdle
    /\ \E h \in SeqsUpTo(CleanAlphabet, MaxHead), p \in PaddingLengths :
          cl_s = h \o Padding(p)
    /\ cl_max_len \in (MinCleanLen..MaxCleanLen) \cup {DefaultMaxLen}
    /\ cl_once = <<>>
    /\ cl_twice = <<>>
    /\ cl_pc = "input"

\* the first call
CleanOnce ==
    /\ cl_pc = "input"
    /\ cl_once' = clean_text_for_db(cl_s, cl_max_len)
    /\ cl_pc' = "once"
    /\ UNCHANGED <<cl_s, cl_max_len, cl_twice>>

\* the call on the first call's result, with the same max_len
CleanAgain ==
    /\ cl_pc = "once"
    /\ cl_twice' = clean_text_for_db(cl_once, cl_max_len)
    /\ cl_pc' = "twice"
    /\ UNCHANGED <<cl_s, cl_max_len, cl_once>>

NextClean ==
    \/ CleanOnce /\ UNCHANGED <<ingVars, chunkVars, embVars, dbVars, storeVars, queryVars>>
    \/ CleanAgain /\ UNCHANGED <<ingVars, chunkVars, embVars, dbVars, storeVars, queryVars>>

SpecClean == InitClean /\ [][NextClean]_vars

\* C11: for every s and every max_len >= 16 the result of clean_text_for_db
\* is at most max_len characters long, also when it was cut and the marker
\* " ... [truncated]" was appended.
C11_LengthWithinMaxLen ==
    (cl_pc \in {"once", "twice"} /\ cl_max_len >= MinCleanLen)
        => Len(cl_once) <= cl_max_len

\* C12: when the sanitized form of s is not longer than max_len, cleaning the
\* result again returns it unchanged.
C12_IdempotentUntruncated ==
    (cl_pc = "twice" /\ Len(SanitizedForm(cl_s)) <= cl_max_len)
        => cl_twice = cl_once

\* C13: when the sanitized form of s is longer than max_len, cleaning the
\* truncated result again with the same max_len returns it unchanged.
C13_IdempotentTruncated ==
    (cl_pc = "twice" /\ Len(SanitizedForm(cl_s)) > cl_max_len)
        => cl_twice = cl_once

\* C14: the result holds no NUL and no character of a category C* other than
\* tab, newline and carriage return.
C14_NoControlChars ==
    cl_pc \in {"once", "twice"}
        => \A i \in 1..Len(cl_once) :
              /\ cl_once[i] # "NUL"
              /\ cl_once[i] \in CategoryC => cl_once[i] \in AllowedControls

\* a cleaned string that lost a format character and keeps a tab
C14_Witness ==
    /\ cl_pc = "once"
    /\ \E j \in 1..Len(cl_s) : cl_s[j] = "ZWSP"
    /\ \E i \in 1..Len(cl_once) : cl_once[i] = "TAB"
    /\ Len(cl_once) < Len(cl_s)

\* the letters of s from position i on
LettersFrom(s, i) == \A j \in i..Len(s) : s[j] = "e"

\* C27: a run of two characters out of space, tab, form feed and vertical
\* tab between letters is replaced by exactly one space, and a newline
\* between letters stays in place (results that are not truncated).
C27_CollapsesHorizontalRuns ==
    (/\ cl_pc # "input"
     /\ Len(cl_s) > 3
     /\ Len(cl_s) <= cl_max_len
     /\ cl_s[1] = "e"
     /\ LettersFrom(cl_s, 4)) =>
        /\ (cl_s[2] \in HorizontalWs /\ cl_s[3] \in HorizontalWs) =>
              cl_once = <<"e", " ">> \o SubSeq(cl_s, 4, Len(cl_s))
        /\ (cl_s[2] = "LF" /\ cl_s[3] = "e") => cl_once = cl_s

====
